---------------------------- MODULE Spec2Model ----------------------------
(***************************************************************************)
(* Flask-Blog: the category reordering view (admin/api/views.py), the      *)
(* category create / delete views (admin/web/views.py) and the file store  *)
(* (admin/file_uploads.py), over the tables of blog/models.py.             *)
(*                                                                         *)
(* Requests run concurrently, each in its own database transaction.  A     *)
(* request is a small process: its pc names the statement it has reached.  *)
(* The specifications run the same actions over one set of variables:      *)
(* Spec interleaves the reorder requests freely, SeqSpec runs one at a     *)
(* time, LiveSpec adds fairness to Spec; FileSpec interleaves store_file   *)
(* calls, SeqFileSpec runs one at a time, NormalizeSpec and StoreFileSpec  *)
(* start them against filled tables; DetectSpec applies                    *)
(* detect_file_references to Markdown texts, RenderSpec markdown_to_html   *)
(* to documents; PostSpec interleaves the post and category form and       *)
(* delete views; AuthSpec runs the admin user commands (admin/cli.py) with *)
(* login, logout and session loading (auth.py); ApiSpec puts the           *)
(* decorators of the API views in front of the reorder and upload views.   *)
(***************************************************************************)
EXTENDS Integers, Sequences, FiniteSets, TLC

\* ------------------------------------------------------------------ bounds

\* Category identities are drawn from 1..MaxCategoryId (the id sequence stops there).
MaxCategoryId == 2

\* Longest list of category_id values a request submits.
MaxSubmitted == 2

\* The concurrent order_blog_categories requests.
Requests == {"r1", "r2"}

CategoryIds == 1..MaxCategoryId

NoRows == [c \in {} |-> 0]

\* ------------------------------------------------------------------- state

VARIABLES
    blog_category,              \* committed table: id -> order_index
    next_category_id,           \* the table's id sequence
    row_lock,                   \* id -> the request holding FOR UPDATE on the row, or "none"
    pc,                         \* request -> statement reached
    submitted_category_ids,     \* request -> the list parsed from the form
    categories,                 \* request -> list of ids, as loaded (or reloaded)
    existing_categories_by_id,  \* request -> id -> order_index attribute of the loaded object
    flushed,                    \* request -> id -> order_index written but not committed
    outcome,                    \* request -> how the view ended
    file,                       \* committed table: the set of File rows
    next_file_id,               \* the table's id sequence
    media_dir,                  \* MEDIA_DIR/images: filename -> content of the file
    collection_path_exists,     \* whether the directory MEDIA_DIR/images exists
    upc,                        \* upload -> statement of store_file reached
    upload,                     \* upload -> the FileStorage given to store_file
    temporary_file,             \* upload -> content of its temporary file, or NoFile
    hashed,                     \* upload -> mimetype, content_size, content_hash read
    filename,                   \* upload -> the normalized filename
    returned,                   \* upload -> what store_file returned or raised
    markdown_text,              \* the text given to detect_file_references
    file_references,            \* what detect_file_references returned or raised
    html_text,                  \* what markdown_to_html returned
    blog_post,                  \* committed table: id -> category_id and content of the row
    next_post_id,               \* the table's id sequence
    blog_post_x_file,           \* committed table: the pairs <<blog_post_id, file_id>>
    web_pc,                     \* web request -> statement of its view reached
    model_object,               \* web request -> the view and the id of the fetched object
    choices,                    \* web request -> the category ids offered by the post form
    flashed,                    \* the message last flashed by a form view
    admin_user,                 \* committed table: email address -> public_id, active, password_hash
    next_public_id,             \* the next value rotate_public_id draws
    session,                    \* browser session -> the user id login_user stored, or None
    current_user,               \* browser session -> the user of its latest request
    api_request                 \* API request -> its user, its HX-Request header, its status

categoryVars == <<blog_category, next_category_id, row_lock, pc, submitted_category_ids,
                  categories, existing_categories_by_id, flushed, outcome>>

fileVars == <<file, next_file_id, media_dir, collection_path_exists, upc, upload,
              temporary_file, hashed, filename, returned>>

detectVars == <<markdown_text, file_references>>

renderVars == <<html_text>>

postVars == <<blog_post, next_post_id, blog_post_x_file, web_pc, model_object, choices>>

authVars == <<admin_user, next_public_id, session, current_user>>

vars == <<categoryVars, fileVars, detectVars, renderVars, postVars, flashed, authVars,
          api_request>>

\* What the views on categories, the file store and detect_file_references leave
\* alone.
nonCategoryVars == <<fileVars, detectVars, renderVars, postVars, flashed,
    authVars, api_request>>

nonFileVars == <<categoryVars, detectVars, renderVars, postVars, flashed,
    authVars, api_request>>

nonDetectVars == <<categoryVars, fileVars, renderVars, postVars, flashed,
    authVars, api_request>>

dbVars == <<blog_category, next_category_id, row_lock>>

\* ----------------------------------------------------------------- helpers

\* The category_id values of a form: each is the text of an integer or other text.
FormValues == [kind : {"int"}, value : CategoryIds] \cup {[kind |-> "text", value |-> 0]}

\* Every form with at most MaxSubmitted category_id values (none: parameter missing).
SubmittedForms == UNION {[1..n -> FormValues] : n \in 0..MaxSubmitted}

\* request.form.getlist("category_id", type=int): the values that parse as an
\* integer, in order; a value that does not parse is left out.
RECURSIVE getlist(_)
getlist(form) ==
    IF form = <<>> THEN <<>>
    ELSE IF Head(form).kind = "int"
         THEN <<Head(form).value>> \o getlist(Tail(form))
         ELSE getlist(Tail(form))

\* A handler without the check of line 35.
EmptySubmissionNever(ids) == FALSE

\* Line 35.
EmptySubmission(ids) == Len(ids) = 0

SetOf(list) == {list[i] : i \in 1..Len(list)}

\* ORDER BY order_index: the ids of `table`, ascending by order_index (ties by id).
RECURSIVE OrderBy(_, _)
OrderBy(table, ids) ==
    IF ids = {} THEN <<>>
    ELSE LET first == CHOOSE c \in ids : \A d \in ids :
                          \/ table[c] < table[d]
                          \/ (table[c] = table[d] /\ c <= d)
         IN  <<first>> \o OrderBy(table, ids \ {first})

categories_query(table) == OrderBy(table, DOMAIN table)

\* The two loops of the view: for each submitted id, in order, the loaded object's
\* order_index is set to the next value of itertools.count(start, step).
RECURSIVE AssignOrderIndexes(_, _, _, _)
AssignOrderIndexes(objects, ids, start, step) ==
    IF ids = <<>> THEN objects
    ELSE AssignOrderIndexes([objects EXCEPT ![Head(ids)] = start],
                            Tail(ids), start + step, step)

\* A column without the unique index.
UniqueViolationOff(table, c, value) == FALSE

\* unique=True on order_index: writing `value` into row c is refused when another
\* row of the table holds it.
UniqueViolation(table, c, value) ==
    \E d \in DOMAIN table \ {c} : table[d] = value

\* The rows a transaction sees: the committed table with its own flushed writes.
Visible(r) ==
    [c \in DOMAIN blog_category |->
        IF c \in DOMAIN flushed[r] THEN flushed[r][c] ELSE blog_category[c]]

\* session.flush(): one UPDATE per loaded object whose order_index changed, in
\* primary-key order; each UPDATE is checked against the unique index at once.
RECURSIVE FlushUpdates(_, _, _)
FlushUpdates(table, objects, todo) ==
    IF todo = {} THEN [ok |-> TRUE, table |-> table]
    ELSE LET c == CHOOSE x \in todo : \A y \in todo : x <= y
         IN  IF objects[c] = table[c]
             THEN FlushUpdates(table, objects, todo \ {c})
             ELSE IF UniqueViolation(table, c, objects[c])
             THEN [ok |-> FALSE, table |-> table]
             ELSE FlushUpdates([table EXCEPT ![c] = objects[c]], objects, todo \ {c})

\* coalesce(max(order_index), 0) + 1
RECURSIVE MaxOrderIndex(_, _)
MaxOrderIndex(table, ids) ==
    IF ids = {} THEN 0
    ELSE LET c == CHOOSE x \in ids : TRUE
             rest == MaxOrderIndex(table, ids \ {c})
         IN  IF table[c] > rest THEN table[c] ELSE rest

\* A default that is always the first index.
OrderIndexDefaultFirst(table) == 1

OrderIndexDefault(table) == MaxOrderIndex(table, DOMAIN table) + 1

\* The value of F at v, v being evaluated once.
Bind(v, F(_)) == CHOOSE y \in {F(x) : x \in {v}} : TRUE

\* The rows a request's transaction has locked.
LocksHeldBy(r) == {c \in DOMAIN row_lock : row_lock[c] = r}

\* A transaction end that keeps the row locks.
ReleasedNothing(r) == row_lock

\* The end of a transaction (commit, rollback, removal of the session) releases
\* the row locks it holds.
Released(r) == [c \in DOMAIN row_lock |-> IF row_lock[c] = r THEN "none" ELSE row_lock[c]]

\* -------------------------------------------------------------------- text

\* A text is a sequence of one-character strings.
UpperCase == <<"A", "B", "C", "D", "E", "F", "G", "H", "I", "J", "K", "L", "M",
               "N", "O", "P", "Q", "R", "S", "T", "U", "V", "W", "X", "Y", "Z">>

LowerCase == <<"a", "b", "c", "d", "e", "f", "g", "h", "i", "j", "k", "l", "m",
               "n", "o", "p", "q", "r", "s", "t", "u", "v", "w", "x", "y", "z">>

DigitChars == <<"0", "1", "2", "3", "4", "5", "6", "7", "8", "9">>

LowerOf ==
    [ch \in {UpperCase[i] : i \in 1..Len(UpperCase)} |->
        LowerCase[CHOOSE i \in 1..Len(UpperCase) : UpperCase[i] = ch]]

Lower(ch) == IF ch \in DOMAIN LowerOf THEN LowerOf[ch] ELSE ch

LowerText(t) == [i \in 1..Len(t) |-> Lower(t[i])]

\* str(n) for n >= 0.
RECURSIVE str(_)
str(n) == IF n < 10 THEN <<DigitChars[n + 1]>>
          ELSE str(n \div 10) \o <<DigitChars[(n % 10) + 1]>>

\* t[:n], as Python slices: a negative n counts from the end.
Slice(t, n) ==
    LET stop == IF n >= 0 THEN (IF n < Len(t) THEN n ELSE Len(t))
                ELSE (IF Len(t) + n > 0 THEN Len(t) + n ELSE 0)
    IN  SubSeq(t, 1, stop)

\* t.rfind(ch), 1-based; 0 when ch is not in t.
RFind(t, ch) ==
    IF \E i \in 1..Len(t) : t[i] = ch
    THEN CHOOSE i \in 1..Len(t) : t[i] = ch /\ \A j \in (i + 1)..Len(t) : t[j] # ch
    ELSE 0

RECURSIVE LStrip(_, _)
LStrip(t, chars) ==
    IF t # <<>> /\ Head(t) \in chars THEN LStrip(Tail(t), chars) ELSE t

RECURSIVE RStrip(_, _)
RStrip(t, chars) ==
    IF t # <<>> /\ t[Len(t)] \in chars THEN RStrip(SubSeq(t, 1, Len(t) - 1), chars) ELSE t

Strip(t, chars) == RStrip(LStrip(t, chars), chars)

\* A split that gives every filename an extension.
splitext_any(t) == <<t, <<".", "t", "x", "t">>>>

\* os.path.splitext: the extension starts at the last dot of the last path
\* component, unless only dots precede it there.
splitext(t) ==
    LET sepIndex == RFind(t, "/")
        dotIndex == RFind(t, ".")
    IN  IF dotIndex > sepIndex
           /\ \E i \in (sepIndex + 1)..(dotIndex - 1) : t[i] # "."
        THEN <<SubSeq(t, 1, dotIndex - 1), SubSeq(t, dotIndex, Len(t))>>
        ELSE <<t, <<>>>>

\* Characters that are not ASCII and have no ASCII decomposition.
NonAscii == {"~"}

SafeChars ==
    {UpperCase[i] : i \in 1..Len(UpperCase)} \cup {LowerCase[i] : i \in 1..Len(LowerCase)}
    \cup {DigitChars[i] : i \in 1..Len(DigitChars)} \cup {"_", ".", "-"}

\* "_".join(t.split()), for t without outer whitespace: each run of whitespace
\* becomes one "_".
JoinWords(t) ==
    LET marked == [i \in 1..Len(t) |->
                      IF t[i] # " " THEN t[i]
                      ELSE IF i > 1 /\ t[i - 1] = " " THEN "" ELSE "_"]
    IN  SelectSeq(marked, LAMBDA ch : ch # "")

\* werkzeug.utils.secure_filename: non-ASCII characters are dropped, path
\* separators become whitespace, whitespace runs become "_", every character
\* outside [A-Za-z0-9_.-] is dropped and outer "." and "_" are stripped.
secure_filename(t) ==
    LET ascii == SelectSeq(t, LAMBDA ch : ch \notin NonAscii)
        spaced == [i \in 1..Len(ascii) |-> IF ascii[i] = "/" THEN " " ELSE ascii[i]]
        joined == JoinWords(Strip(spaced, {" "}))
        kept == SelectSeq(joined, LAMBDA ch : ch \in SafeChars)
    IN  Strip(kept, {".", "_"})

\* A function that escapes nothing.
escape_value_none(value, chars, escape_char) == value

\* database/functions.py escape_value: each of `chars` gets `escape_char` in front
\* (the escape character is none of `chars`); the text is escaped half by half.
RECURSIVE escape_value(_, _, _)
escape_value(value, chars, escape_char) ==
    IF Len(value) = 0 THEN <<>>
    ELSE IF Len(value) = 1
    THEN (IF value[1] \in chars THEN <<escape_char, value[1]>> ELSE <<value[1]>>)
    ELSE LET half == Len(value) \div 2
         IN  escape_value(SubSeq(value, 1, half), chars, escape_char)
             \o escape_value(SubSeq(value, half + 1, Len(value)), chars, escape_char)

\* The elements of a LIKE pattern: a character that follows an unescaped escape
\* character is literal, an unescaped "%" matches any text, an unescaped "_" any
\* character; the escape characters themselves are dropped.
LikeTokens(pattern, escape_char) ==
    LET escapes(i) == CHOOSE k \in 0..(i - 1) :
                          /\ \A j \in (i - k)..(i - 1) : pattern[j] = escape_char
                          /\ (k = i - 1 \/ pattern[i - k - 1] # escape_char)
        escaped(i) == escapes(i) % 2 = 1
        token(i) ==
            IF escaped(i) THEN [kind |-> "literal", char |-> pattern[i]]
            ELSE IF pattern[i] = escape_char /\ i < Len(pattern)
            THEN [kind |-> "escape", char |-> pattern[i]]
            ELSE IF pattern[i] = "%" THEN [kind |-> "any", char |-> pattern[i]]
            ELSE IF pattern[i] = "_" THEN [kind |-> "one", char |-> pattern[i]]
            ELSE [kind |-> "literal", char |-> pattern[i]]
    IN  SelectSeq([i \in 1..Len(pattern) |-> token(i)], LAMBDA tk : tk.kind # "escape")

\* The tokens against the text: the tokens before the first "%" match character by
\* character, a "%" matches any part of what follows.
RECURSIVE LikeMatch(_, _)
LikeMatch(tokens, t) ==
    LET anyAt == {i \in 1..Len(tokens) : tokens[i].kind = "any"}
        first == IF anyAt = {} THEN Len(tokens) + 1
                 ELSE CHOOSE i \in anyAt : \A j \in anyAt : i <= j
        prefix == first - 1
    IN  /\ Len(t) >= prefix
        /\ \A i \in 1..prefix : tokens[i].kind = "one" \/ tokens[i].char = t[i]
        /\ IF anyAt = {} THEN Len(t) = prefix
           ELSE \E k \in prefix..Len(t) :
                   LikeMatch(SubSeq(tokens, first + 1, Len(tokens)),
                             SubSeq(t, k + 1, Len(t)))

\* SQL LIKE with an escape character: "%" matches any text, "_" any character.
Like(pattern, t, escape_char) == LikeMatch(LikeTokens(pattern, escape_char), t)

ilike(t, pattern, escape_char) == Like(LowerText(pattern), LowerText(t), escape_char)

\* -------------------------------------------------------------- file store

\* File rows are capped at MaxFiles (uploads in flight included).
MaxFiles == 2

\* The concurrent store_file calls.
Uploads == {"u1", "u2"}

\* File.MAX_FILENAME_LENGTH
MAX_FILENAME_LENGTH == 200

\* file.stream.read(8192)
ReadSize == 8192

\* FileCollection.IMAGES
IMAGES == "images"

\* Streams, as the chunks read(8192) returns: a PNG image of two chunks, a JPEG
\* image of one and an empty stream.
PngContent == <<[data |-> "png-head", size |-> ReadSize], [data |-> "png-tail", size |-> 1]>>

JpegContent == <<[data |-> "jpeg-head", size |-> 100]>>

EmptyContent == <<>>

Contents == {PngContent, JpegContent, EmptyContent}

\* Original filenames: "a.png", "A.png" and "a" (no extension).
FilenameLower == <<"a", ".", "p", "n", "g">>

FilenameUpper == <<"A", ".", "p", "n", "g">>

FilenameNoExtension == <<"a">>

\* A FileStorage: filename (or None: has_filename FALSE) and stream.
FileStorages ==
    [has_filename : {TRUE}, filename : {FilenameLower, FilenameUpper, FilenameNoExtension},
     stream : Contents]
    \cup [has_filename : {FALSE}, filename : {<<>>}, stream : Contents]

NoUpload == [has_filename |-> FALSE, filename |-> <<>>, stream |-> <<>>]

NoFile == [open |-> FALSE, content |-> <<>>]

NoFiles == [f \in {} |-> <<>>]

NotRead == [mimetype |-> "", content_size |-> 0, content_hash |-> <<>>]

NotReturned == [status |-> "none", stored_file |-> {}, is_new |-> FALSE]

\* markdown_to_html has not been called.
NotRendered == [status |-> "none", link_target |-> "none", html |-> <<>>]

\* detect_file_references has not been called.
NotDetected == [status |-> "none", files |-> {}, queried |-> FALSE]

\* magic.from_buffer(chunk, mime=True)
from_buffer(chunk) ==
    IF chunk.data = "png-head" THEN "image/png"
    ELSE IF chunk.data = "jpeg-head" THEN "image/jpeg"
    ELSE "application/octet-stream"

\* hashlib.sha256 over the bytes of the stream: equal for equal content only.
hexdigest(content) == <<"sha256", [i \in 1..Len(content) |-> content[i].data]>>

\* Lines 174-191: the read loop over the chunks of the stream.  The chunk counter
\* is incremented before it is compared with 0.
RECURSIVE ReadChunks(_, _, _)
ReadChunks(chunks, num_chunks_read, acc) ==
    IF chunks = <<>> THEN acc
    ELSE LET n == num_chunks_read + 1
             chunk == Head(chunks)
         IN  ReadChunks(Tail(chunks), n,
                 [mimetype |-> IF n = 0 THEN from_buffer(chunk) ELSE acc.mimetype,
                  content_size |-> acc.content_size + chunk.size,
                  content_hash |-> acc.content_hash])

ReadStream(content) ==
    [ReadChunks(content, 0, NotRead) EXCEPT !.content_hash = hexdigest(content)]

\* A query that finds no row.
stored_file_query_none(rows, content_hash) == {}

\* Line 194: the File rows with this content hash.
stored_file_query(rows, content_hash) ==
    {row \in rows : row.content_hash = content_hash}

\* file_exists: a row of the collection whose filename matches, case-insensitively,
\* the escaped filename.
file_exists(rows, name, file_collection) ==
    LET escape_char == "\\"
        escaped_filename == escape_value(name, {"%", "_"}, escape_char)
    IN  \E row \in rows :
            /\ ilike(row.filename, escaped_filename, escape_char)
            /\ row.collection = file_collection

JoinExt(name, extension) == name \o <<".">> \o extension

\* Line 148: the candidate with a suffix.
SuffixedFilename(name, extension, suffix) ==
    JoinExt(name \o <<"-">> \o str(suffix), extension)

\* The iterations first..last of the loop of lines 134-148: the first suffix whose
\* candidate file_exists does not find, tried in ascending order, the range taken
\* half by half; 0 when every candidate of the range exists.
RECURSIVE FirstFreeSuffix(_, _, _, _, _, _)
FirstFreeSuffix(rows, file_collection, name, extension, first, last) ==
    IF first = last
    THEN (IF file_exists(rows, SuffixedFilename(name, extension, first), file_collection)
          THEN 0 ELSE first)
    ELSE LET middle == (first + last) \div 2
             lower == FirstFreeSuffix(rows, file_collection, name, extension, first, middle)
         IN  IF lower # 0 THEN lower
             ELSE FirstFreeSuffix(rows, file_collection, name, extension, middle + 1, last)

\* A loop that goes on to suffix 100.
SuffixLoopPast99(rows, file_collection, name, extension, max_name_length) ==
    LET reduced == max_name_length - 3
        cut == IF Len(name) > reduced THEN Slice(name, reduced) ELSE name
        free == FirstFreeSuffix(rows, file_collection, Slice(cut, reduced), extension, 1, 100)
    IN  IF ~file_exists(rows, JoinExt(name, extension), file_collection)
        THEN [raised |-> "", filename |-> JoinExt(name, extension), checks |-> 1]
        ELSE [raised |-> "",
              filename |-> SuffixedFilename(Slice(cut, reduced), extension, free),
              checks |-> free + 1]

\* Lines 134-150: the suffix loop; checks counts the calls of file_exists.  The
\* first suffix reduces the length budget by 3 and cuts the name to it (lines
\* 137-142); suffix 100 raises (lines 144-145).
SuffixLoop(rows, file_collection, name, extension, max_name_length) ==
    LET reduced == max_name_length - 3
        cut == IF Len(name) > reduced THEN Slice(name, reduced) ELSE name
        free == FirstFreeSuffix(rows, file_collection, Slice(cut, reduced), extension, 1, 99)
    IN  IF ~file_exists(rows, JoinExt(name, extension), file_collection)
        THEN [raised |-> "", filename |-> JoinExt(name, extension), checks |-> 1]
        ELSE IF free = 0
        THEN [raised |-> "RuntimeError", filename |-> <<>>, checks |-> 100]
        ELSE [raised |-> "",
              filename |-> SuffixedFilename(Slice(cut, reduced), extension, free),
              checks |-> free + 1]

\* uuid.uuid4().hex: 32 hexadecimal characters.
uuid4_hex == [i \in 1..32 |-> "f"]

\* normalize_filename, against the File rows it reads.
normalize_filename(rows, original, file_collection) ==
    LET parts == splitext(original)
    IN  IF parts[2] = <<>>
        THEN [raised |-> "ValueError", filename |-> <<>>, checks |-> 0]
        ELSE LET secure_name == secure_filename(parts[1])
                 secure_extension == secure_filename(parts[2])
                 name == IF secure_name = <<>> THEN uuid4_hex ELSE secure_name
                 extension == IF secure_extension = <<>> THEN <<"t", "x", "t">>
                              ELSE secure_extension
                 max_name_length == MAX_FILENAME_LENGTH - (1 + Len(extension))
                 cut == IF Len(name) > max_name_length
                        THEN Slice(name, max_name_length) ELSE name
             IN  SuffixLoop(rows, file_collection, cut, extension, max_name_length)

\* A column without the unique index.
FilenameTakenOff(rows, name) == FALSE

\* unique=True on File.filename.
FilenameTaken(rows, name) == \E row \in rows : row.filename = name

UploadsInFlight == {u \in Uploads : upc[u] \notin {"idle", "returned"}}

\* store_file returns: the with block deletes the temporary file.
ReturnFile(u, rows, is_new) ==
    /\ upc' = [upc EXCEPT ![u] = "returned"]
    /\ temporary_file' = [temporary_file EXCEPT ![u] = NoFile]
    /\ returned' = [returned EXCEPT ![u] =
                       [status |-> "returned", stored_file |-> rows, is_new |-> is_new]]

\* An exit that leaves the temporary file behind.
RaiseFileKeep(u, error) ==
    /\ upc' = [upc EXCEPT ![u] = "returned"]
    /\ UNCHANGED temporary_file
    /\ returned' = [returned EXCEPT ![u] =
                       [status |-> error, stored_file |-> {}, is_new |-> FALSE]]

\* An exception leaves store_file: the with block deletes the temporary file.
RaiseFile(u, error) ==
    /\ upc' = [upc EXCEPT ![u] = "returned"]
    /\ temporary_file' = [temporary_file EXCEPT ![u] = NoFile]
    /\ returned' = [returned EXCEPT ![u] =
                       [status |-> error, stored_file |-> {}, is_new |-> FALSE]]

\* Lines 171-191: the filename check, the temporary file and the read loop.  A call
\* that can insert is admitted while fewer than MaxFiles rows exist or are underway.
ReadUpload(u) ==
    /\ UNCHANGED nonFileVars
    /\ upc[u] = "idle"
    /\ \E storage \in FileStorages :
        /\ \/ Cardinality(file) + Cardinality(UploadsInFlight) < MaxFiles
           \/ \E row \in file : row.content_hash = hexdigest(storage.stream)
        /\ upload' = [upload EXCEPT ![u] = storage]
        /\ IF ~storage.has_filename
           THEN /\ RaiseFile(u, "ValueError")
                /\ UNCHANGED hashed
           ELSE /\ upc' = [upc EXCEPT ![u] = "read"]
                /\ temporary_file' = [temporary_file EXCEPT ![u] =
                                         [open |-> TRUE, content |-> storage.stream]]
                /\ hashed' = [hashed EXCEPT ![u] = ReadStream(storage.stream)]
                /\ UNCHANGED returned
    /\ UNCHANGED <<file, next_file_id, media_dir, collection_path_exists, filename>>

\* Lines 193-196: .scalar() returns the row found, None when there is none and
\* raises MultipleResultsFound when there are several.
FindStoredFile(u) ==
    /\ UNCHANGED nonFileVars
    /\ upc[u] = "read"
    /\ LET found == stored_file_query(file, hashed[u].content_hash)
       IN  IF Cardinality(found) > 1
           THEN RaiseFile(u, "MultipleResultsFound")
           ELSE IF Cardinality(found) = 1
           THEN ReturnFile(u, found, FALSE)
           ELSE /\ upc' = [upc EXCEPT ![u] = "path"]
                /\ UNCHANGED <<temporary_file, returned>>
    /\ UNCHANGED <<file, next_file_id, media_dir, collection_path_exists, upload, hashed,
                   filename>>

\* Lines 198-200: collection_path.exists()
CheckCollectionPath(u) ==
    /\ UNCHANGED nonFileVars
    /\ upc[u] = "path"
    /\ upc' = [upc EXCEPT ![u] = IF collection_path_exists THEN "normalize" ELSE "mkdir"]
    /\ UNCHANGED <<file, next_file_id, media_dir, collection_path_exists, upload,
                   temporary_file, hashed, filename, returned>>

\* Line 201: collection_path.mkdir() raises FileExistsError on an existing directory.
MakeCollectionPath(u) ==
    /\ UNCHANGED nonFileVars
    /\ upc[u] = "mkdir"
    /\ IF collection_path_exists
       THEN /\ RaiseFile(u, "FileExistsError")
            /\ UNCHANGED collection_path_exists
       ELSE /\ collection_path_exists' = TRUE
            /\ upc' = [upc EXCEPT ![u] = "normalize"]
            /\ UNCHANGED <<temporary_file, returned>>
    /\ UNCHANGED <<file, next_file_id, media_dir, upload, hashed, filename>>

\* Lines 203-204.
NormalizeFilename(u) ==
    /\ UNCHANGED nonFileVars
    /\ upc[u] = "normalize"
    /\ LET normalized == normalize_filename(file, upload[u].filename, IMAGES)
       IN  IF normalized.raised # ""
           THEN /\ RaiseFile(u, normalized.raised)
                /\ UNCHANGED filename
           ELSE /\ filename' = [filename EXCEPT ![u] = normalized.filename]
                /\ upc' = [upc EXCEPT ![u] = "copy"]
                /\ UNCHANGED <<temporary_file, returned>>
    /\ UNCHANGED <<file, next_file_id, media_dir, collection_path_exists, upload, hashed>>

\* Lines 206-208: the temporary file is copied to the destination path.
CopyToDestination(u) ==
    /\ UNCHANGED nonFileVars
    /\ upc[u] = "copy"
    /\ media_dir' = [f \in DOMAIN media_dir \cup {filename[u]} |->
                        IF f = filename[u] THEN temporary_file[u].content ELSE media_dir[f]]
    /\ upc' = [upc EXCEPT ![u] = "insert"]
    /\ UNCHANGED <<file, next_file_id, collection_path_exists, upload, temporary_file,
                   hashed, filename, returned>>

\* A handler that leaves the destination file.
unlink_keep(dir, name) == dir

\* file_path.unlink(missing_ok=True)
unlink(dir, name) == [f \in DOMAIN dir \ {name} |-> dir[f]]

\* Lines 210-226: the row is inserted and committed; a DBAPIError (here the
\* IntegrityError of the unique filename) deletes the destination file and is raised
\* again.
InsertFile(u) ==
    /\ UNCHANGED nonFileVars
    /\ upc[u] = "insert"
    /\ IF FilenameTaken(file, filename[u])
       THEN /\ media_dir' = unlink(media_dir, filename[u])
            /\ RaiseFile(u, "IntegrityError")
            /\ UNCHANGED <<file, next_file_id>>
       ELSE LET stored_file == [id |-> next_file_id,
                                filename |-> filename[u],
                                collection |-> IMAGES,
                                mimetype |-> hashed[u].mimetype,
                                content_size |-> hashed[u].content_size,
                                content_hash |-> hashed[u].content_hash]
            IN  /\ file' = file \cup {stored_file}
                /\ next_file_id' = next_file_id + 1
                /\ ReturnFile(u, {stored_file}, TRUE)
                /\ UNCHANGED media_dir
    /\ UNCHANGED <<collection_path_exists, upload, hashed, filename>>

\* The commit fails for another reason (the connection is lost): the same handler.
InsertFails(u) ==
    /\ UNCHANGED nonFileVars
    /\ upc[u] = "insert"
    /\ media_dir' = unlink(media_dir, filename[u])
    /\ RaiseFile(u, "OperationalError")
    /\ UNCHANGED <<file, next_file_id, collection_path_exists, upload, hashed, filename>>

\* The result of the call goes out of scope.
ReleaseUpload(u) ==
    /\ upc[u] = "returned"
    /\ upc' = [upc EXCEPT ![u] = "idle"]
    /\ upload' = [upload EXCEPT ![u] = NoUpload]
    /\ hashed' = [hashed EXCEPT ![u] = NotRead]
    /\ filename' = [filename EXCEPT ![u] = <<>>]
    /\ returned' = [returned EXCEPT ![u] = NotReturned]
    /\ UNCHANGED <<file, next_file_id, media_dir, collection_path_exists, temporary_file>>

\* The caller is done with the result.
EndUpload(u) ==
    /\ UNCHANGED nonFileVars
    /\ ReleaseUpload(u)

StoreFileStep(u) ==
    \/ ReadUpload(u)
    \/ FindStoredFile(u)
    \/ CheckCollectionPath(u)
    \/ MakeCollectionPath(u)
    \/ NormalizeFilename(u)
    \/ CopyToDestination(u)
    \/ InsertFile(u)
    \/ InsertFails(u)
    \/ EndUpload(u)

\* -------------------------------------------------------------------- Init

\* The web requests of the form and delete views that can be in progress.
WebRequests == {"w1", "w2"}

\* The id of a model object that has no row yet (None).
None == 0

NoObject == [view |-> "none", id |-> None]

NotFlashed == [view |-> "none", had_id |-> FALSE, performed_action |-> "none"]

\* The browser sessions.
Sessions == {"s1", "s2"}

\* What current_user is without a loaded user (the anonymous user).
NoUser == "anonymous"

NoLoad == [blueprint |-> "none", user |-> NoUser]

NoRequest == [status |-> "none", user |-> NoUser, htmx_request |-> FALSE]

\* No admin user, no session logged in, no API request in progress.
AuthInit ==
    /\ admin_user = NoRows
    /\ next_public_id = 1
    /\ session = [s \in Sessions |-> None]
    /\ current_user = [s \in Sessions |-> NoLoad]
    /\ api_request = [x \in Requests \cup Uploads |-> NoRequest]

\* No post, no web request in progress, nothing flashed.
WebInit ==
    /\ blog_post = NoRows
    /\ next_post_id = 1
    /\ blog_post_x_file = {}
    /\ web_pc = [w \in WebRequests |-> "idle"]
    /\ model_object = [w \in WebRequests |-> NoObject]
    /\ choices = [w \in WebRequests |-> {}]
    /\ flashed = NotFlashed

CategoryInit ==
    /\ blog_category = NoRows
    /\ next_category_id = 1
    /\ row_lock = NoRows
    /\ pc = [r \in Requests |-> "idle"]
    /\ submitted_category_ids = [r \in Requests |-> <<>>]
    /\ categories = [r \in Requests |-> <<>>]
    /\ existing_categories_by_id = [r \in Requests |-> NoRows]
    /\ flushed = [r \in Requests |-> NoRows]
    /\ outcome = [r \in Requests |-> "none"]

\* No file stored, no store_file call in progress.
FileInit ==
    /\ file = {}
    /\ next_file_id = 1
    /\ media_dir = NoFiles
    /\ collection_path_exists = FALSE
    /\ upc = [u \in Uploads |-> "idle"]
    /\ upload = [u \in Uploads |-> NoUpload]
    /\ temporary_file = [u \in Uploads |-> NoFile]
    /\ hashed = [u \in Uploads |-> NotRead]
    /\ filename = [u \in Uploads |-> <<>>]
    /\ returned = [u \in Uploads |-> NotReturned]

Init ==
    /\ CategoryInit
    /\ WebInit
    /\ AuthInit
    /\ FileInit
    /\ markdown_text = <<>>
    /\ file_references = NotDetected
    /\ html_text = NotRendered

\* ------------------------------------------------- category create / delete

\* Lines 119 and 211 of web/views.py: the action named in the success message, from
\* the id the object has when the line runs.
performed_action(id) == IF id = None THEN "created" ELSE "edited"

\* The message flashed by a form view after its commit: the object's id before the
\* request is id_before, and the commit has left it with id_after.
Flash(view, id_before, id_after) ==
    [view |-> view, had_id |-> id_before # None,
     performed_action |-> performed_action(id_after)]

\* ondelete="RESTRICT" on blog_post.category_id, and category_id being NOT NULL:
\* a category that a post refers to cannot be deleted.
Restricted(posts, c) == \E p \in DOMAIN posts : posts[p].category_id = c

\* blog_category_form on a new object: INSERT with the column default, then commit,
\* then the success message.
CreateCategory ==
    /\ UNCHANGED <<fileVars, detectVars, renderVars, postVars, authVars, api_request>>
    /\ flashed' = Flash("blog_category_form", None, next_category_id)
    /\ next_category_id <= MaxCategoryId
    /\ LET c == next_category_id
           index == OrderIndexDefault(blog_category)
       IN  /\ ~UniqueViolation(blog_category, c, index)
           /\ blog_category' = [d \in DOMAIN blog_category \cup {c} |->
                                   IF d = c THEN index ELSE blog_category[d]]
           /\ row_lock' = [d \in DOMAIN row_lock \cup {c} |->
                                   IF d = c THEN "none" ELSE row_lock[d]]
    /\ next_category_id' = next_category_id + 1
    /\ UNCHANGED <<pc, submitted_category_ids, categories, existing_categories_by_id,
                   flushed, outcome>>

\* blog_category_delete, confirmed, run without another request in between: no
\* post is counted, DELETE (waits for a row lock held by a reorder) and commit.
DeleteCategory(c) ==
    /\ UNCHANGED nonCategoryVars
    /\ c \in DOMAIN blog_category
    /\ ~Restricted(blog_post, c)
    /\ row_lock[c] = "none"
    /\ blog_category' = [d \in DOMAIN blog_category \ {c} |-> blog_category[d]]
    /\ row_lock' = [d \in DOMAIN row_lock \ {c} |-> row_lock[d]]
    /\ UNCHANGED <<next_category_id, pc, submitted_category_ids, categories,
                   existing_categories_by_id, flushed, outcome>>

\* --------------------------------------------------- order_blog_categories

\* The view returns `result`: its locals go out of scope, the response is kept
\* until the request ends.
Return(r, result, how) ==
    /\ pc' = [pc EXCEPT ![r] = "responded"]
    /\ categories' = [categories EXCEPT ![r] = result]
    /\ outcome' = [outcome EXCEPT ![r] = how]
    /\ submitted_category_ids' = [submitted_category_ids EXCEPT ![r] = <<>>]
    /\ existing_categories_by_id' = [existing_categories_by_id EXCEPT ![r] = NoRows]
    /\ flushed' = [flushed EXCEPT ![r] = NoRows]

\* An exception leaves the view: no categories are returned, and what the
\* transaction wrote is rolled back.
Raise(r, error) == Return(r, <<>>, error)

\* Lines 33-36: the submitted list is parsed; an empty list is a Bad Request.
ReceiveOrder(r) ==
    /\ UNCHANGED nonCategoryVars
    /\ pc[r] = "idle"
    /\ \E form \in SubmittedForms :
        LET ids == getlist(form)
        IN  IF EmptySubmission(ids)
            THEN Raise(r, "BadRequest")
            ELSE /\ submitted_category_ids' = [submitted_category_ids EXCEPT ![r] = ids]
                 /\ pc' = [pc EXCEPT ![r] = "validated"]
                 /\ UNCHANGED <<outcome, categories, existing_categories_by_id, flushed>>
    /\ UNCHANGED dbVars

\* A SELECT that does not wait for row locks.
CanLockRowsNoWait(r) == TRUE

\* with_for_update(): the SELECT waits while another transaction holds a lock on a
\* row it returns; then it locks every row and returns them in order.
CanLockRows(r) == \A c \in DOMAIN row_lock : row_lock[c] \in {"none", r}

\* Lines 38-41.
SelectForUpdate(r) ==
    /\ UNCHANGED nonCategoryVars
    /\ pc[r] = "validated"
    /\ CanLockRows(r)
    /\ row_lock' = [c \in DOMAIN row_lock |-> r]
    /\ categories' = [categories EXCEPT ![r] = categories_query(blog_category)]
    /\ existing_categories_by_id' = [existing_categories_by_id EXCEPT ![r] = blog_category]
    /\ pc' = [pc EXCEPT ![r] = "locked"]
    /\ UNCHANGED <<blog_category, next_category_id, submitted_category_ids, flushed, outcome>>

\* A comparison that accepts any subset of the existing ids.
StaleSubmissionSubset(r) ==
    ~(SetOf(submitted_category_ids[r]) \subseteq DOMAIN existing_categories_by_id[r])

\* A comparison that also refuses a list in which an id is repeated.
StaleSubmissionRepeats(r) ==
    \/ SetOf(submitted_category_ids[r]) # DOMAIN existing_categories_by_id[r]
    \/ Len(submitted_category_ids[r]) # Cardinality(DOMAIN existing_categories_by_id[r])

\* Line 44: the set of submitted ids against the keys of the loaded objects.
StaleSubmission(r) ==
    SetOf(submitted_category_ids[r]) # DOMAIN existing_categories_by_id[r]

\* A handler without the check of line 48.
SameOrderNever(r) == FALSE

\* Line 48: the submitted list against the loaded order.
SameOrder(r) == submitted_category_ids[r] = categories[r]

\* Lines 43-49: either check returns the loaded categories without a write.
ReturnUnchanged(r) ==
    /\ UNCHANGED nonCategoryVars
    /\ pc[r] = "locked"
    /\ StaleSubmission(r) \/ SameOrder(r)
    /\ Return(r, categories[r], IF StaleSubmission(r) THEN "stale" ELSE "same")
    /\ UNCHANGED dbVars

\* Temporary indexes 1, 2, ... instead.
TemporaryIndexesPositive(r) ==
    AssignOrderIndexes(existing_categories_by_id[r], submitted_category_ids[r], 1, 1)

\* Lines 51-55: temporary indexes -1, -2, ...
TemporaryIndexes(r) ==
    AssignOrderIndexes(existing_categories_by_id[r], submitted_category_ids[r], -1, -1)

\* New indexes 0, 1, ... instead.
NewIndexesFromZero(r) ==
    AssignOrderIndexes(existing_categories_by_id[r], submitted_category_ids[r], 0, 1)

\* Lines 59-63: new indexes 1, 2, ...
NewIndexes(r) ==
    AssignOrderIndexes(existing_categories_by_id[r], submitted_category_ids[r], 1, 1)

\* Lines 51-57: the first loop and session.flush().
SetTemporaryIndexes(r) ==
    /\ UNCHANGED nonCategoryVars
    /\ pc[r] = "locked"
    /\ ~StaleSubmission(r)
    /\ ~SameOrder(r)
    /\ LET objects == TemporaryIndexes(r)
           res == FlushUpdates(Visible(r), objects, DOMAIN objects)
       IN  IF res.ok
           THEN /\ existing_categories_by_id' = [existing_categories_by_id EXCEPT ![r] = objects]
                /\ flushed' = [flushed EXCEPT ![r] =
                                  [c \in DOMAIN objects |-> res.table[c]]]
                /\ pc' = [pc EXCEPT ![r] = "flushed"]
                /\ UNCHANGED <<outcome, row_lock>>
                /\ UNCHANGED <<submitted_category_ids, categories>>
           ELSE \* IntegrityError: the transaction is rolled back
                /\ Raise(r, "IntegrityError")
                /\ row_lock' = Released(r)
    /\ UNCHANGED <<blog_category, next_category_id>>

\* Lines 59-65: the second loop and session.commit() (flush, then COMMIT).
SetNewIndexes(r) ==
    /\ UNCHANGED nonCategoryVars
    /\ pc[r] = "flushed"
    /\ LET objects == NewIndexes(r)
           res == FlushUpdates(Visible(r), objects, DOMAIN objects)
       IN  /\ row_lock' = Released(r)
           /\ IF res.ok
              THEN /\ blog_category' = res.table
                   /\ existing_categories_by_id' =
                          [existing_categories_by_id EXCEPT ![r] = objects]
                   /\ flushed' = [flushed EXCEPT ![r] = NoRows]
                   /\ pc' = [pc EXCEPT ![r] = "committed"]
                   /\ UNCHANGED <<outcome, submitted_category_ids, categories>>
              ELSE \* IntegrityError: the transaction is rolled back
                   /\ UNCHANGED blog_category
                   /\ Raise(r, "IntegrityError")
    /\ UNCHANGED next_category_id

\* A failure after which the flushed writes stay in the table.
CommitFailsKeepsFlushed(r) ==
    /\ UNCHANGED nonCategoryVars
    /\ pc[r] = "flushed"
    /\ Raise(r, "DBAPIError")
    /\ row_lock' = Released(r)
    /\ blog_category' = Visible(r)
    /\ UNCHANGED next_category_id

\* The database fails between the flush and the commit (a lost connection): the
\* exception leaves the view and the transaction is rolled back.
CommitFails(r) ==
    /\ UNCHANGED nonCategoryVars
    /\ pc[r] = "flushed"
    /\ Raise(r, "DBAPIError")
    /\ row_lock' = Released(r)
    /\ UNCHANGED <<blog_category, next_category_id>>

\* Lines 67-68: the categories are queried again and returned.
ReloadCategories(r) ==
    /\ UNCHANGED nonCategoryVars
    /\ pc[r] = "committed"
    /\ Return(r, categories_query(blog_category), "reordered")
    /\ UNCHANGED dbVars

\* The request is torn down: the session is removed, which rolls back what is open
\* and releases the row locks.
RemoveSession(r) ==
    /\ pc[r] = "responded"
    /\ row_lock' = Released(r)
    /\ pc' = [pc EXCEPT ![r] = "idle"]
    /\ submitted_category_ids' = [submitted_category_ids EXCEPT ![r] = <<>>]
    /\ categories' = [categories EXCEPT ![r] = <<>>]
    /\ existing_categories_by_id' = [existing_categories_by_id EXCEPT ![r] = NoRows]
    /\ flushed' = [flushed EXCEPT ![r] = NoRows]
    /\ outcome' = [outcome EXCEPT ![r] = "none"]
    /\ UNCHANGED <<blog_category, next_category_id>>

\* The request ends.
EndRequest(r) ==
    /\ UNCHANGED nonCategoryVars
    /\ RemoveSession(r)

OrderStep(r) ==
    \/ ReceiveOrder(r)
    \/ SelectForUpdate(r)
    \/ ReturnUnchanged(r)
    \/ SetTemporaryIndexes(r)
    \/ SetNewIndexes(r)
    \/ CommitFails(r)
    \/ ReloadCategories(r)
    \/ EndRequest(r)

Next ==
    \/ CreateCategory
    \/ \E c \in CategoryIds : DeleteCategory(c)
    \/ \E r \in Requests : OrderStep(r)

Spec == Init /\ [][Next]_vars

\* One request at a time: a step is taken by the only request in flight, and a
\* category is created or deleted only between requests.
InFlight == {r \in Requests : pc[r] # "idle"}

SeqNext ==
    \/ InFlight = {} /\ CreateCategory
    \/ InFlight = {} /\ \E c \in CategoryIds : DeleteCategory(c)
    \/ \E r \in Requests : InFlight \subseteq {r} /\ OrderStep(r)

SeqSpec == Init /\ [][SeqNext]_vars

\* The steps of a request in flight that the worker serving it takes by itself:
\* every statement of the view after the locking SELECT, and the teardown of the
\* request.
Proceed(r) ==
    \/ ReturnUnchanged(r)
    \/ SetTemporaryIndexes(r)
    \/ SetNewIndexes(r)
    \/ ReloadCategories(r)
    \/ EndRequest(r)

\* The worker keeps running the view (weak fairness of its steps), and the
\* database grants a row lock to a transaction that waits for it once the rows are
\* free, whoever else asks later (strong fairness of the locking SELECT). Nothing
\* obliges a client to send a request, the database to fail, or an administrator to
\* create or delete a category.
Fairness ==
    \A r \in Requests : WF_vars(Proceed(r)) /\ SF_vars(SelectForUpdate(r))

LiveSpec == Spec /\ Fairness

\* The file store, its calls interleaved.
FileNext == \E u \in Uploads : StoreFileStep(u)

FileSpec == Init /\ [][FileNext]_vars

\* The file store, one call at a time.
UploadsActive == {u \in Uploads : upc[u] # "idle"}

SeqFileNext == \E u \in Uploads : UploadsActive \subseteq {u} /\ StoreFileStep(u)

SeqFileSpec == Init /\ [][SeqFileNext]_vars

\* ------------------------------------- store_file from normalize_filename on

Repeat(ch, n) == [i \in 1..n |-> ch]

\* Name and extension lengths around the limit of the filename column.
NameLengths == {1, 196, 197, 200}

ExtensionLengths == {3, 196, 198, 200}

LongFilenames ==
    {JoinExt(Repeat("a", n), Repeat("p", e)) : n \in NameLengths, e \in ExtensionLengths}

\* "a_b.png", "axb.png", "a-2.png" and "~.~" (no character of it is kept).
FilenameUnderscore == <<"a", "_", "b", ".", "p", "n", "g">>

FilenameOther == <<"a", "x", "b", ".", "p", "n", "g">>

FilenameSuffixed == <<"a", "-", "2", ".", "p", "n", "g">>

FilenameNonAscii == <<"~", ".", "~">>

ShortFilenames ==
    {FilenameLower, FilenameUpper, FilenameUnderscore, FilenameNonAscii, FilenameNoExtension}

\* "a-<n>.png"
FilenameWithSuffix(n) == <<"a", "-">> \o str(n) \o <<".", "p", "n", "g">>

\* Earlier uploads named "a.png", "a-1.png", "a-2.png", ...: none, a few, and
\* enough to use up the suffixes -1 to -99.
EarlierCounts == {0, 1, 2, 99, 100}

Suffixed(k) == [i \in 1..k |-> IF i = 1 THEN FilenameLower ELSE FilenameWithSuffix(i - 1)]

EarlierUploads ==
    {Suffixed(k) : k \in {n \in EarlierCounts : n < 99}}
    \cup {<<FilenameLower, FilenameSuffixed>>, <<FilenameUpper>>, <<FilenameOther>>,
          <<FilenameUnderscore>>}

\* An upload and the uploads stored before it.
Scenarios ==
    [earlier : EarlierUploads, original : ShortFilenames]
    \cup [earlier : {Suffixed(k) : k \in {n \in EarlierCounts : n >= 99}},
          original : {FilenameLower, FilenameUpper}]
    \cup {[earlier |-> Repeat(f, k), original |-> f] : f \in LongFilenames, k \in 0..2}

\* The stream of the i-th earlier upload: each has content of its own.
StoredContent(i) == <<[data |-> ToString(i), size |-> i]>>

\* The File table after one more store_file call has stored an upload with this
\* original filename; a filename longer than the column is not stored.
StoreOne(rows, original) ==
    LET normalized == normalize_filename(rows, original, IMAGES)
        id == Cardinality(rows) + 1
        read == ReadStream(StoredContent(id))
    IN  IF normalized.raised # "" \/ Len(normalized.filename) > MAX_FILENAME_LENGTH
        THEN rows
        ELSE rows \cup {[id |-> id,
                         filename |-> normalized.filename,
                         collection |-> IMAGES,
                         mimetype |-> read.mimetype,
                         content_size |-> read.content_size,
                         content_hash |-> read.content_hash]}

\* The File table after store_file has stored uploads with these original
\* filenames, one call at a time: the first half of them, then the rest.
RECURSIVE StoreAll(_, _)
StoreAll(rows, originals) ==
    IF originals = <<>> THEN rows
    ELSE IF Len(originals) = 1
         THEN Bind(rows, LAMBDA stored : StoreOne(stored, originals[1]))
    ELSE LET half == Len(originals) \div 2
         IN  Bind(StoreAll(rows, SubSeq(originals, 1, half)), LAMBDA stored :
                 StoreAll(stored, SubSeq(originals, half + 1, Len(originals))))

\* A store_file call about to call normalize_filename (line 203): its content has
\* no row, the collection directory exists, and earlier calls have filled the table.
NormalizeInit ==
    /\ CategoryInit
    /\ WebInit
    /\ AuthInit
    /\ \E scenario \in Scenarios :
        /\ file = StoreAll({}, scenario.earlier)
        /\ upload = [u \in Uploads |->
                        IF u = "u1"
                        THEN [has_filename |-> TRUE, filename |-> scenario.original,
                              stream |-> JpegContent]
                        ELSE NoUpload]
    /\ next_file_id = Cardinality(file) + 1
    /\ media_dir = [f \in {row.filename : row \in file} |->
                       StoredContent((CHOOSE row \in file : row.filename = f).id)]
    /\ collection_path_exists = TRUE
    /\ upc = [u \in Uploads |-> IF u = "u1" THEN "normalize" ELSE "idle"]
    /\ temporary_file = [u \in Uploads |->
                            IF u = "u1" THEN [open |-> TRUE, content |-> JpegContent]
                            ELSE NoFile]
    /\ hashed = [u \in Uploads |-> IF u = "u1" THEN ReadStream(JpegContent) ELSE NotRead]
    /\ filename = [u \in Uploads |-> <<>>]
    /\ returned = [u \in Uploads |-> NotReturned]
    /\ markdown_text = <<>>
    /\ file_references = NotDetected
    /\ html_text = NotRendered

NormalizeNext ==
    \E u \in Uploads :
        \/ NormalizeFilename(u)
        \/ CopyToDestination(u)
        \/ InsertFile(u)
        \/ InsertFails(u)
        \/ EndUpload(u)

NormalizeSpec == NormalizeInit /\ [][NormalizeNext]_vars

\* The file store, its calls interleaved, from the empty table and from the tables
\* that earlier calls filled.
StoreFileInit == Init \/ NormalizeInit

StoreFileSpec == StoreFileInit /\ [][FileNext]_vars

\* ------------------------------------------------------- claims: categories

Distinct(table) ==
    \A c, d \in DOMAIN table : c # d => table[c] # table[d]

Range(table) == {table[c] : c \in DOMAIN table}

NoRepeat(list) == \A i, j \in 1..Len(list) : i # j => list[i] # list[j]

\* The submitted list is a permutation of the ids the request loaded.
ValidReorder(r) ==
    /\ NoRepeat(submitted_category_ids[r])
    /\ SetOf(submitted_category_ids[r]) = DOMAIN existing_categories_by_id[r]

Moved(r) == pc'[r] # pc[r]

\* C1: in every committed state, whatever the interleaving of category creation,
\* category deletion and reorder requests, no two blog_category rows have the same
\* order_index.
C1_UniqueOrderIndex == Distinct(blog_category)

\* The unique index has refused a write: a reorder ended with an IntegrityError
\* while another category held the index it was about to commit.
C1_Witness ==
    \E r \in Requests :
        /\ outcome[r] = "IntegrityError"
        /\ Cardinality(DOMAIN blog_category) >= 2

\* C2: a request whose list is a permutation of all existing categories and differs
\* from the current order ends, after its commit, with the category at position k
\* of the list holding order_index k; the categories sorted by order_index are the
\* submitted list, and that list is what the request returns.
C2_ReorderApplied ==
    [][\A r \in Requests :
          LET ids == submitted_category_ids[r]
          IN  /\ (pc[r] = "locked" /\ Moved(r) /\ ValidReorder(r) /\ ids # categories[r])
                    => pc'[r] = "flushed"
              /\ (pc[r] = "flushed" /\ pc'[r] = "committed" /\ ValidReorder(r))
                    => /\ \A k \in 1..Len(ids) : blog_category'[ids[k]] = k
                       /\ categories_query(blog_category') = ids
              /\ (pc[r] = "committed" /\ Moved(r) /\ ValidReorder(r))
                    => /\ outcome'[r] = "reordered"
                       /\ categories'[r] = ids]_vars

\* A reorder of two categories has committed.
C2_Witness ==
    \E r \in Requests :
        /\ pc[r] = "committed"
        /\ ValidReorder(r)
        /\ Len(submitted_category_ids[r]) >= 2

\* C3: a request whose set of submitted ids differs from the set of existing ids
\* (one missing, or one unknown) changes no order_index and returns the categories
\* in their current order, and no error is raised.
C3_StaleIsNoOp ==
    [][\A r \in Requests :
          (/\ pc[r] = "locked"
           /\ Moved(r)
           /\ SetOf(submitted_category_ids[r]) # DOMAIN existing_categories_by_id[r])
          => /\ pc'[r] = "responded"
             /\ outcome'[r] = "stale"
             /\ blog_category' = blog_category
             /\ categories'[r] = OrderBy(blog_category, DOMAIN existing_categories_by_id[r])
             /\ Len(categories'[r]) = Cardinality(DOMAIN existing_categories_by_id[r])]_vars

\* A stale request has returned while two categories exist.
C3_Witness ==
    \E r \in Requests :
        /\ outcome[r] = "stale"
        /\ Len(categories[r]) >= 2

\* C4: a request that submits all categories in exactly their current order writes
\* nothing: every order_index is the same before and after, contiguous or sparse.
C4_SameOrderIsNoOp ==
    [][\A r \in Requests :
          (/\ pc[r] = "locked"
           /\ Moved(r)
           /\ submitted_category_ids[r] = OrderBy(blog_category, DOMAIN existing_categories_by_id[r])
           /\ SetOf(submitted_category_ids[r]) = DOMAIN existing_categories_by_id[r])
          => /\ pc'[r] = "responded"
             /\ outcome'[r] = "same"
             /\ blog_category' = blog_category
             /\ categories'[r] = submitted_category_ids[r]]_vars

\* The current order was submitted while the indexes were sparse (not 1..N), and
\* they are still sparse afterwards.
C4_Witness ==
    \E r \in Requests :
        /\ outcome[r] = "same"
        /\ categories[r] = categories_query(blog_category)
        /\ Range(blog_category) # 1..Cardinality(DOMAIN blog_category)

\* C5: during a valid reorder no two rows hold the same order_index: the phase-1
\* flush succeeds and leaves pairwise distinct negative values, none of them equal
\* to a previous or a final index of any row; the phase-2 commit succeeds and
\* leaves pairwise distinct positive values.
C5_NoTransientDuplicate ==
    [][\A r \in Requests :
          LET ids == submitted_category_ids[r]
              seen == [c \in DOMAIN blog_category |->
                          IF c \in DOMAIN flushed'[r] THEN flushed'[r][c] ELSE blog_category[c]]
          IN  /\ (pc[r] = "locked" /\ Moved(r) /\ ValidReorder(r) /\ ids # categories[r])
                    => /\ pc'[r] = "flushed"
                       /\ DOMAIN flushed'[r] = SetOf(ids)
                       /\ Distinct(seen)
                       /\ \A c \in DOMAIN flushed'[r] :
                             /\ flushed'[r][c] < 0
                             /\ flushed'[r][c] \notin Range(blog_category)
                             /\ flushed'[r][c] \notin 1..Len(ids)
              /\ (pc[r] = "flushed" /\ Moved(r) /\ ValidReorder(r)
                                    /\ outcome'[r] # "DBAPIError")
                    => /\ pc'[r] = "committed"
                       /\ Distinct(blog_category')
                       /\ \A c \in SetOf(ids) : blog_category'[c] > 0]_vars

\* Two categories are being swapped: phase 1 is flushed, not yet committed.
C5_Witness ==
    \E r \in Requests :
        /\ pc[r] = "flushed"
        /\ ValidReorder(r)
        /\ Cardinality(DOMAIN flushed[r]) >= 2

\* The result of running a reorder request alone on `table`.
SerialReorder(table, ids) ==
    IF SetOf(ids) # DOMAIN table \/ ids = OrderBy(table, DOMAIN table)
    THEN table
    ELSE [c \in DOMAIN table |->
            CHOOSE k \in 1..Len(ids) :
                ids[k] = c /\ \A j \in 1..Len(ids) : ids[j] = c => j <= k]

Restrict(table, ids) == [c \in ids \cap DOMAIN table |-> table[c]]

\* C6: concurrent reorder requests are serialized by the row locks.  A request that
\* has loaded the categories holds the lock of each of them until it commits, no
\* other request has loaded them meanwhile, what it loaded is still what is
\* committed, and what it commits is the result of running it alone on the rows
\* committed at that moment.
C6_Serialized ==
    /\ [](\A r \in Requests :
            pc[r] \in {"locked", "flushed"} =>
               /\ \A c \in DOMAIN existing_categories_by_id[r] :
                     c \in DOMAIN blog_category /\ row_lock[c] = r
               /\ pc[r] = "locked" =>
                     existing_categories_by_id[r] =
                        Restrict(blog_category, DOMAIN existing_categories_by_id[r])
               /\ \A q \in Requests \ {r} :
                     pc[q] \in {"locked", "flushed"} =>
                        DOMAIN existing_categories_by_id[q]
                           \cap DOMAIN existing_categories_by_id[r] = {})
    /\ [][\A r \in Requests :
            (pc[r] = "flushed" /\ pc'[r] = "committed")
            => LET mine == DOMAIN existing_categories_by_id[r]
               IN  /\ Restrict(blog_category', mine) =
                         SerialReorder(Restrict(blog_category, mine),
                                       submitted_category_ids[r])
                   /\ \A c \in DOMAIN blog_category \ mine :
                         blog_category'[c] = blog_category[c]]_vars

\* One request holds the locks with phase 1 flushed while the other one, with a
\* different list, waits for them.
C6_Witness ==
    \E r, q \in Requests :
        /\ pc[r] = "flushed"
        /\ pc[q] = "validated"
        /\ submitted_category_ids[q] # submitted_category_ids[r]
        /\ SetOf(submitted_category_ids[q]) = SetOf(submitted_category_ids[r])
        /\ Len(submitted_category_ids[q]) >= 2

\* C7: a request with no category id (parameter missing, or no value that parses
\* as an integer) ends with a Bad Request before a category is read or locked, and
\* changes no order_index; only a non-empty list goes on to the query.
C7_EmptyIsBadRequest ==
    /\ [](\A r \in Requests :
            /\ pc[r] \in {"validated", "locked", "flushed", "committed"}
                  => submitted_category_ids[r] # <<>>
            /\ outcome[r] = "BadRequest"
                  => /\ pc[r] = "responded"
                     /\ categories[r] = <<>>
                     /\ \A c \in DOMAIN row_lock : row_lock[c] # r)
    /\ [][\A r \in Requests :
            (pc[r] = "idle" /\ pc'[r] = "responded")
            => /\ outcome'[r] = "BadRequest"
               /\ UNCHANGED dbVars]_vars

\* A Bad Request was answered while categories exist.
C7_Witness ==
    \E r \in Requests :
        /\ outcome[r] = "BadRequest"
        /\ DOMAIN blog_category # {}


\* ------------------------------------------------------- claims: file store

RowsWithHash(rows, content_hash) == {row \in rows : row.content_hash = content_hash}

HasDiskFile(row) == row.filename \in DOMAIN media_dir

\* C8: in every reachable state, under every interleaving of store_file calls, no
\* two File rows have the same content_hash.
C8_UniqueContentHash ==
    \A row1 \in file : \A row2 \in file :
        row1.content_hash = row2.content_hash => row1 = row2

\* C9: in every reachable state, under every interleaving of store_file calls,
\* every committed File row has its file on disk in the media directory.
C9_RowHasDiskFile ==
    \A row \in file : HasDiskFile(row)

\* C10: with store_file called one call at a time, a call that returns for content
\* no row has yet returns a newly inserted row with True, and a call that returns
\* for content a row has already returns that one row with False, inserting no row,
\* changing no row and writing nothing to the media directory; every content has
\* at most one row, and that row has one disk file holding the content.
C10_SequentialDedup ==
    /\ [](\A row1 \in file :
            /\ \A row2 \in file : row1.content_hash = row2.content_hash => row1 = row2
            /\ HasDiskFile(row1)
            /\ hexdigest(media_dir[row1.filename]) = row1.content_hash)
    /\ [][\A u \in Uploads :
            (upc[u] # "returned" /\ upc'[u] = "returned"
                /\ returned'[u].status = "returned")
            => LET existing == RowsWithHash(file, hashed[u].content_hash)
               IN  /\ file \subseteq file'
                   /\ returned'[u].is_new = (existing = {})
                   /\ Cardinality(returned'[u].stored_file) = 1
                   /\ returned'[u].stored_file
                          = RowsWithHash(file', hexdigest(upload[u].stream))
                   /\ existing # {} =>
                          /\ returned'[u].stored_file = existing
                          /\ file' = file
                          /\ next_file_id' = next_file_id
                          /\ media_dir' = media_dir
                   /\ existing = {} =>
                          /\ file' = file \cup returned'[u].stored_file
                          /\ returned'[u].stored_file \cap file = {}]_vars

C10_Witness ==
    \E u \in Uploads :
        /\ returned[u].status = "returned"
        /\ ~returned[u].is_new
        /\ upload[u].filename = FilenameUpper
        /\ \E row \in returned[u].stored_file :
              /\ row.filename = FilenameLower
              /\ row \in file
        /\ Cardinality(file) = 1
        /\ DOMAIN media_dir = {FilenameLower}

InsertErrors == {"IntegrityError", "OperationalError"}

\* C11: when the insert or commit of the new File row fails after the destination
\* file was written, store_file deletes the destination file (absent or not),
\* raises the database error again and inserts no row: no file is left at the
\* destination path and every other file of the media directory is untouched.
C11_FailedInsertCleansUp ==
    [][\A u \in Uploads :
        (upc[u] = "insert" /\ upc'[u] = "returned" /\ returned'[u].status # "returned")
        => /\ returned'[u].status \in InsertErrors
           /\ file' = file
           /\ filename[u] \notin DOMAIN media_dir'
           /\ DOMAIN media_dir' = DOMAIN media_dir \ {filename[u]}
           /\ \A f \in DOMAIN media_dir' : media_dir'[f] = media_dir[f]]_vars

C11_Witness ==
    \E u \in Uploads : \E v \in Uploads \ {u} :
        /\ upc[u] = "returned"
        /\ returned[u].status \in InsertErrors
        /\ filename[u] \notin DOMAIN media_dir
        /\ \A row \in file : row.filename # filename[u]
        /\ upc[v] = "insert"
        /\ filename[v] = filename[u]

\* C12: every store_file call that creates a File row from non-empty content gives
\* the row the MIME type detected from the first chunk of the stream, never the
\* initial empty value.
C12_MimetypeDetected ==
    [][\A u \in Uploads :
        (upc[u] = "insert" /\ returned'[u].status = "returned"
            /\ upload[u].stream # EmptyContent)
        => \A row \in returned'[u].stored_file :
              /\ row.mimetype = from_buffer(Head(upload[u].stream))
              /\ row.mimetype # ""]_vars

\* C13: for every input filename that has an extension, whatever the lengths of
\* its name and extension and whether or not a suffix is needed, the filename
\* normalize_filename returns is at most MAX_FILENAME_LENGTH characters long.
C13_FilenameLengthBound ==
    \A u \in Uploads : Len(filename[u]) <= MAX_FILENAME_LENGTH

\* ------------------------------------------------ claims: normalize_filename

\* The filename has a dot that is not among its leading dots.
HasExtension(t) ==
    \E i \in 1..Len(t) : t[i] = "." /\ \E j \in 1..(i - 1) : t[j] # "."

\* A file of the collection has this filename, letter case apart.
MatchesExisting(rows, file_collection, candidate) ==
    \E row \in rows :
        /\ row.collection = file_collection
        /\ LowerText(row.filename) = LowerText(candidate)

\* The least element of a non-empty set of numbers.
Least(S) == CHOOSE n \in S : \A m \in S : n <= m

\* The secured name and extension of a filename, the name cut to the budget that
\* the extension and a suffix of `reserve` characters leave in the column.
SecuredName(t) ==
    LET secured == secure_filename(splitext(t)[1])
    IN  IF secured = <<>> THEN uuid4_hex ELSE secured

SecuredExtension(t) ==
    LET secured == secure_filename(splitext(t)[2])
    IN  IF secured = <<>> THEN <<"t", "x", "t">> ELSE secured

Budget(t, reserve) == MAX_FILENAME_LENGTH - (1 + Len(SecuredExtension(t))) - reserve

BaseFilename(t) ==
    LET name == SecuredName(t)
    IN  (IF Len(name) > Budget(t, 0) THEN Slice(name, Budget(t, 0)) ELSE name)
        \o <<".">> \o SecuredExtension(t)

NumberedFilename(t, n) ==
    LET name == SecuredName(t)
        first == IF Len(name) > Budget(t, 0) THEN Slice(name, Budget(t, 0)) ELSE name
        second == IF Len(first) > Budget(t, 3) THEN Slice(first, Budget(t, 3)) ELSE first
    IN  Slice(second, Budget(t, 3)) \o <<"-">> \o str(n) \o <<".">> \o SecuredExtension(t)

FreeSuffixes(rows, file_collection, t) ==
    {n \in 1..99 : ~MatchesExisting(rows, file_collection, NumberedFilename(t, n))}

\* C14: normalize_filename returns the base filename when no file of the
\* collection matches it case-insensitively; otherwise it returns the candidate
\* with the smallest suffix of 1..99 that no file of the collection matches, the
\* name cut to the reduced budget; what it returns matches no file of the
\* collection.
C14_SmallestFreeSuffix ==
    [][\A u \in Uploads :
        (upc[u] = "normalize" /\ upc'[u] # "normalize"
            /\ HasExtension(upload[u].filename))
        => LET original == upload[u].filename
               free == FreeSuffixes(file, IMAGES, original)
           IN  /\ ~MatchesExisting(file, IMAGES, BaseFilename(original))
                  => (upc'[u] = "copy" /\ filename'[u] = BaseFilename(original))
               /\ (MatchesExisting(file, IMAGES, BaseFilename(original)) /\ free # {})
                  => (upc'[u] = "copy"
                      /\ filename'[u] = NumberedFilename(original, Least(free)))
               /\ upc'[u] = "copy"
                  => ~MatchesExisting(file, IMAGES, filename'[u])]_vars

C14_Witness ==
    /\ upc["u1"] = "copy"
    /\ upload["u1"].filename = FilenameLower
    /\ filename["u1"] = FilenameWithSuffix(1)
    /\ \E row \in file : row.filename = FilenameUpper
    /\ \A row \in file : row.filename # FilenameLower

\* C15: when the base filename and the candidates with the suffixes -1 to -99 all
\* exist in the collection, normalize_filename raises after trying -99, and the
\* store_file call inserts no row and writes no destination file; it raises this
\* error in no other case, and never calls file_exists more than 100 times.
C15_SuffixesExhausted ==
    /\ [](\A u \in Uploads :
            upc[u] = "normalize"
            => LET normalized == normalize_filename(file, upload[u].filename, IMAGES)
                   exhausted == /\ HasExtension(upload[u].filename)
                                /\ MatchesExisting(file, IMAGES,
                                                   BaseFilename(upload[u].filename))
                                /\ FreeSuffixes(file, IMAGES, upload[u].filename) = {}
               IN  /\ normalized.checks <= 100
                   /\ exhausted => normalized.checks = 100
                   /\ exhausted <=> normalized.raised = "RuntimeError")
    /\ [][\A u \in Uploads :
            (upc[u] = "normalize" /\ upc'[u] # "normalize"
                /\ HasExtension(upload[u].filename)
                /\ MatchesExisting(file, IMAGES, BaseFilename(upload[u].filename))
                /\ FreeSuffixes(file, IMAGES, upload[u].filename) = {})
            => /\ upc'[u] = "returned"
               /\ returned'[u].status = "RuntimeError"
               /\ file' = file
               /\ media_dir' = media_dir]_vars

C15_Witness ==
    /\ upc["u1"] = "returned"
    /\ returned["u1"].status = "RuntimeError"
    /\ upload["u1"].filename = FilenameUpper
    /\ Cardinality(file) = 100
    /\ DOMAIN media_dir = {row.filename : row \in file}

\* ------------------------------------------------- claims: file store, more

\* C16: in every reachable state, also when two uploads whose names normalize to
\* the same filename run concurrently, no two File rows of one collection have
\* the same filename.
C16_UniqueFilename ==
    \A row1 \in file : \A row2 \in file :
        (row1.collection = row2.collection /\ row1.filename = row2.filename)
        => row1 = row2

C16_Witness ==
    \E u \in Uploads : \E v \in Uploads \ {u} :
        /\ returned[u].status = "IntegrityError"
        /\ returned[v].status = "returned"
        /\ returned[v].is_new
        /\ filename[u] = filename[v]
        /\ upload[u].stream # upload[v].stream
        /\ \E row \in file : row.filename = filename[u]

\* C17: store_file raises an invalid-input error for an upload without a filename
\* before it reads any content, and for novel content whose filename has no
\* extension from normalize_filename; in both cases no File row is inserted and
\* no destination file is written; it raises the error in no other case.
C17_InvalidFilename ==
    [][\A u \in Uploads :
        /\ (upc[u] = "idle" /\ upc'[u] # "idle" /\ ~upload'[u].has_filename)
           => /\ upc'[u] = "returned"
              /\ returned'[u].status = "ValueError"
              /\ hashed'[u] = NotRead
              /\ temporary_file'[u] = NoFile
              /\ file' = file
              /\ media_dir' = media_dir
        /\ (upc[u] = "normalize" /\ upc'[u] # "normalize"
                /\ ~HasExtension(upload[u].filename))
           => /\ upc'[u] = "returned"
              /\ returned'[u].status = "ValueError"
              /\ file' = file
              /\ media_dir' = media_dir
        /\ (returned[u].status # "ValueError" /\ returned'[u].status = "ValueError")
           => \/ ~upload'[u].has_filename
              \/ ~HasExtension(upload'[u].filename)]_vars

C17_Witness ==
    \E u \in Uploads : \E v \in Uploads \ {u} :
        /\ returned[u].status = "ValueError"
        /\ ~upload[u].has_filename
        /\ hashed[u] = NotRead
        /\ returned[v].status = "ValueError"
        /\ upload[v].has_filename
        /\ upload[v].filename = FilenameNoExtension
        /\ hashed[v] # NotRead
        /\ file = {}
        /\ media_dir = NoFiles

\* C18: the temporary file of a store_file call exists only during the call: on
\* every exit (dedup hit, creation, invalid filename, suffixes used up, failed
\* insert) it has been deleted when store_file returns or raises.
C18_TemporaryFileDeleted ==
    /\ [](\A u \in Uploads :
            temporary_file[u].open <=> upc[u] \notin {"idle", "returned"})
    /\ [][\A u \in Uploads :
            (upc[u] # "returned" /\ upc'[u] = "returned")
            => temporary_file'[u] = NoFile]_vars

C18_Witness ==
    \E u \in Uploads : \E v \in Uploads \ {u} :
        /\ upc[u] = "returned"
        /\ returned[u].status \in InsertErrors
        /\ temporary_file[u] = NoFile
        /\ upc[v] = "returned"
        /\ returned[v].status = "returned"
        /\ ~returned[v].is_new
        /\ temporary_file[v] = NoFile

\* C19: a reorder request that has ended holds no row lock, whichever way it
\* ended (stale set, same order, commit, error); so a request waiting for the
\* row locks eventually gets them, and every request in flight eventually ends.
C19_LocksReleased ==
    /\ [](\A r \in Requests : pc[r] = "idle" => LocksHeldBy(r) = {})
    /\ \A r \in Requests : (pc[r] = "validated") ~> (pc[r] = "locked")
    /\ \A r \in Requests : (pc[r] # "idle") ~> (pc[r] = "idle")

\* One request waits for the row locks that another, which has answered a stale
\* submission, still holds.
C19_Witness ==
    \E r, s \in Requests :
        /\ r # s
        /\ pc[r] = "validated"
        /\ ~CanLockRows(r)
        /\ pc[s] = "responded"
        /\ outcome[s] = "stale"
        /\ LocksHeldBy(s) # {}

\* ------------------------------------------------ detect_file_references

\* t.find(one of chars) from index start on, 1-based; 0 when none is found.
Find(t, chars, start) ==
    IF \E i \in start..Len(t) : t[i] \in chars
    THEN CHOOSE i \in start..Len(t) :
             t[i] \in chars /\ \A j \in start..(i - 1) : t[j] \notin chars
    ELSE 0

StartsWith(t, prefix) ==
    Len(t) >= Len(prefix) /\ SubSeq(t, 1, Len(prefix)) = prefix

\* t[n:], n counted from 0.
From(t, n) == SubSeq(t, n + 1, Len(t))

Http == <<"h", "t", "t", "p">>
Https == <<"h", "t", "t", "p", "s">>
Ftp == <<"f", "t", "p">>
Mailto == <<"m", "a", "i", "l", "t", "o">>

\* urllib.parse.scheme_chars.
SchemeChars ==
    SetOf(LowerCase) \cup SetOf(UpperCase) \cup SetOf(DigitChars) \cup {"+", "-", "."}

\* urllib.parse.uses_relative and uses_netloc, as far as the schemes above go.
uses_relative == {<<>>, Http, Https, Ftp}
uses_netloc == {<<>>, Http, Https, Ftp}

\* urlsplit, the scheme: what precedes the first colon, when it starts with a
\* letter and consists of scheme characters.
SplitScheme(url, default_scheme) ==
    LET colon == Find(url, {":"}, 1)
        has_scheme == /\ colon > 1
                      /\ url[1] \in SetOf(LowerCase) \cup SetOf(UpperCase)
                      /\ \A i \in 1..(colon - 1) : url[i] \in SchemeChars
    IN  IF has_scheme
        THEN [scheme |-> LowerText(SubSeq(url, 1, colon - 1)), rest |-> From(url, colon)]
        ELSE [scheme |-> default_scheme, rest |-> url]

\* urlsplit, the netloc: between a leading "//" and the next of "/", "?", "#".
SplitNetloc(url) ==
    LET delim == Find(url, {"/", "?", "#"}, 3)
    IN  IF ~StartsWith(url, <<"/", "/">>) THEN [netloc |-> <<>>, rest |-> url]
        ELSE IF delim = 0 THEN [netloc |-> From(url, 2), rest |-> <<>>]
        ELSE [netloc |-> SubSeq(url, 3, delim - 1), rest |-> From(url, delim - 1)]

\* url.split(separator, 1).
SplitOnce(url, separator) ==
    LET at == Find(url, {separator}, 1)
    IN  IF at = 0 THEN [before |-> url, after |-> <<>>]
        ELSE [before |-> SubSeq(url, 1, at - 1), after |-> From(url, at)]

\* urllib.parse.urlsplit(url, scheme): scheme, netloc, then fragment and query
\* cut off the path. A netloc with one of "[" and "]" but not the other is a
\* ValueError ("Invalid IPv6 URL").
urlsplit_scheme(url, default_scheme) ==
    Bind(SplitScheme(url, default_scheme), LAMBDA s :
    Bind(SplitNetloc(s.rest), LAMBDA n :
    Bind(SplitOnce(n.rest, "#"), LAMBDA f :
    Bind(SplitOnce(f.before, "?"), LAMBDA q :
        [raised |-> IF ("[" \in SetOf(n.netloc)) # ("]" \in SetOf(n.netloc))
                    THEN "ValueError" ELSE "",
         scheme |-> s.scheme, netloc |-> n.netloc, path |-> q.before,
         query |-> q.after, fragment |-> f.after]))))

urlsplit(url) == Bind(url, LAMBDA u : urlsplit_scheme(u, <<>>))

\* urllib.parse.urlunsplit.
urlunsplit(scheme, netloc, path, query, fragment) ==
    LET with_netloc ==
            IF netloc # <<>> \/ (scheme \in uses_netloc /\ ~StartsWith(path, <<"/", "/">>))
            THEN <<"/", "/">> \o netloc
                 \o (IF path # <<>> /\ path[1] # "/" THEN <<"/">> ELSE <<>>) \o path
            ELSE path
        with_scheme == IF scheme # <<>> THEN scheme \o <<":">> \o with_netloc
                       ELSE with_netloc
        with_query == IF query # <<>> THEN with_scheme \o <<"?">> \o query
                      ELSE with_scheme
    IN  IF fragment # <<>> THEN with_query \o <<"#">> \o fragment ELSE with_query

\* The url joined from the parts of base (b) and url (u).
Joined(base, url, b, u) ==
    LET directory == SubSeq(b.path, 1, RFind(b.path, "/"))
        joined_path == IF u.path = <<>> THEN b.path
                       ELSE IF u.path[1] = "/" THEN u.path
                       ELSE directory \o u.path
    IN  IF url = <<>> THEN [raised |-> "", url |-> base]
        ELSE IF base = <<>> THEN [raised |-> "", url |-> url]
        ELSE IF b.raised # "" \/ u.raised # "" THEN [raised |-> "ValueError", url |-> <<>>]
        ELSE IF u.scheme # b.scheme \/ u.scheme \notin uses_relative
             THEN [raised |-> "", url |-> url]
        ELSE IF u.scheme \in uses_netloc /\ u.netloc # <<>>
             THEN [raised |-> "",
                   url |-> urlunsplit(u.scheme, u.netloc, u.path, u.query, u.fragment)]
        ELSE [raised |-> "",
              url |-> urlunsplit(u.scheme, b.netloc, joined_path,
                                 IF u.path = <<>> /\ u.query = <<>> THEN b.query
                                 ELSE u.query,
                                 u.fragment)]

\* urllib.parse.urljoin(base, url): the url itself when its scheme differs from
\* the base's or it has a netloc of its own, else the base's scheme and netloc
\* with the url's path put after the base's directory. Parsing the url can raise.
\* (The removal of dot segments and of empty segments from the joined path is
\* left out: is_hosted_url reads the netloc only.)
urljoin(base, url) ==
    Bind(base, LAMBDA base_value :
    Bind(url, LAMBDA url_value :
    Bind(urlsplit(base_value), LAMBDA b :
    Bind(urlsplit_scheme(url_value, b.scheme), LAMBDA u :
        Joined(base_value, url_value, b, u)))))

\* request.host_url.
host_url == Http \o <<":", "/", "/", "h", "/">>

\* is_hosted_url: the netloc of the url joined with the host url against the
\* host's netloc; no exception is caught.
is_hosted_url(url) ==
    Bind(urljoin(host_url, url), LAMBDA joined :
        IF joined.raised # "" THEN [raised |-> joined.raised, hosted |-> FALSE]
        ELSE Bind(urlsplit(joined.url), LAMBDA split_url :
             Bind(urlsplit(host_url), LAMBDA split_host_url :
                 IF split_url.raised # "" \/ split_host_url.raised # ""
                 THEN [raised |-> "ValueError", hosted |-> FALSE]
                 ELSE [raised |-> "",
                       hosted |-> split_url.netloc = split_host_url.netloc])))

\* current_app.config["MEDIA_URL_PREFIX"], and the prefix as the path regex has it.
MEDIA_URL_PREFIX == <<"/", "m", "e", "d", "i", "a", "/">>

media_url_prefix == Strip(MEDIA_URL_PREFIX, {"/"})

\* FILE_COLLECTION_REGEX: the collection names, here with the text of each.
FILE_COLLECTION_REGEX == {[collection |-> IMAGES, text |-> <<"i", "m", "a", "g", "e", "s">>]}

\* One or more "/" and then the literal: what follows them, or no match.
AfterSlashes(t, literal) ==
    Bind(LStrip(t, {"/"}), LAMBDA stripped :
        IF stripped # t /\ StartsWith(stripped, literal)
        THEN [matched |-> TRUE, rest |-> From(stripped, Len(literal))]
        ELSE [matched |-> FALSE, rest |-> <<>>])

\* The path against /+<media_url_prefix>/+<collection>/+([^/]+) for one collection.
MatchCollection(path, c) ==
    Bind(AfterSlashes(path, media_url_prefix), LAMBDA prefix :
    Bind(AfterSlashes(prefix.rest, c.text), LAMBDA collection :
    Bind(AfterSlashes(collection.rest, <<>>), LAMBDA last :
        [matched |-> /\ prefix.matched
                     /\ collection.matched
                     /\ last.matched
                     /\ last.rest # <<>>
                     /\ "/" \notin SetOf(last.rest),
         collection |-> c.collection,
         filename |-> last.rest])))

\* re.search(hosted_file_path_regex, path), the regex being
\* ^/+<media_url_prefix>/+(<collection>)/+([^/]+)$ .
hosted_file_path_regex(path) ==
    Bind({m \in {MatchCollection(path, c) : c \in FILE_COLLECTION_REGEX} : m.matched},
         LAMBDA matches :
             IF matches = {} THEN [matched |-> FALSE, collection |-> "", filename |-> <<>>]
             ELSE CHOOSE m \in matches : TRUE)

\* The Markdown text is a sequence of image elements, each in one of the four
\* forms the regexes look for:
\*   "inline"           ![alt](url)         "inline_angle"     ![alt](<url>)
\*   "reference"        [ref]: url          "reference_angle"  [ref]: <url>
Forms == {"inline", "inline_angle", "reference", "reference_angle"}

\* What IMAGE_URL_REGEXES[k - 1] captures in one element: the first regex takes
\* the angle brackets of ![alt](<url>) into the url, the others take the url.
Captured(k, element) ==
    IF k = 1 /\ element.form = "inline" THEN <<element.url>>
    ELSE IF k = 1 /\ element.form = "inline_angle"
         THEN <<(<<"<">> \o element.url \o <<">">>)>>
    ELSE IF k = 2 /\ element.form = "inline_angle" THEN <<element.url>>
    ELSE IF k = 3 /\ element.form = "reference" THEN <<element.url>>
    ELSE IF k = 4 /\ element.form = "reference_angle" THEN <<element.url>>
    ELSE <<>>

\* re.findall(regex, markdown_text).
RECURSIVE findall(_, _)
findall(k, text) ==
    IF text = <<>> THEN <<>>
    ELSE Captured(k, Head(text)) \o findall(k, Tail(text))

\* Lines 57-59: the urls of all four regexes, chained.
all_image_urls(text) ==
    findall(1, text) \o findall(2, text) \o findall(3, text) \o findall(4, text)

\* A loop that adds no clause, whatever the url.
ClauseNone(image_url) == [raised |-> "", clauses |-> {}]

\* Lines 68-75, for one url: the clause it adds, none, or an exception of
\* is_hosted_url or urlsplit.
Clause(image_url) ==
    Bind(is_hosted_url(image_url), LAMBDA hosted :
        IF hosted.raised # "" THEN [raised |-> hosted.raised, clauses |-> {}]
        ELSE IF ~hosted.hosted THEN [raised |-> "", clauses |-> {}]
        ELSE Bind(urlsplit(image_url), LAMBDA split_image_url :
                 IF split_image_url.raised # ""
                 THEN [raised |-> split_image_url.raised, clauses |-> {}]
                 ELSE Bind(hosted_file_path_regex(split_image_url.path), LAMBDA match :
                          IF ~match.matched THEN [raised |-> "", clauses |-> {}]
                          ELSE [raised |-> "",
                                clauses |-> {[collection |-> match.collection,
                                              filename |-> match.filename]}])))

\* Lines 65-75: the loop over the urls; an exception ends it.
RECURSIVE filter_clauses(_)
filter_clauses(image_urls) ==
    IF image_urls = <<>> THEN [raised |-> "", clauses |-> {}]
    ELSE Bind(Clause(Head(image_urls)), LAMBDA first :
             IF first.raised # "" THEN first
             ELSE Bind(filter_clauses(Tail(image_urls)), LAMBDA rest :
                      IF rest.raised # "" THEN rest
                      ELSE [raised |-> "", clauses |-> first.clauses \cup rest.clauses]))

\* detect_file_references: without a clause the empty list, and no query (lines
\* 77-78); else the File rows matching one of the clauses (line 80).
detect_file_references(rows, text) ==
    Bind(filter_clauses(all_image_urls(text)), LAMBDA filtered :
        IF filtered.raised # ""
        THEN [status |-> filtered.raised, files |-> {}, queried |-> FALSE]
        ELSE IF filtered.clauses = {}
        THEN [status |-> "returned", files |-> {}, queried |-> FALSE]
        ELSE [status |-> "returned",
              files |-> {row \in rows :
                            \E clause \in filtered.clauses :
                                /\ row.collection = clause.collection
                                /\ row.filename = clause.filename},
              queried |-> TRUE])

\* The urls of the texts: to a stored file (by path, with the host, by a path
\* with a query), to a file that may not be stored, to another host, with another
\* scheme, without the shape of a media path (another directory, no leading
\* slash), and one that does not parse (an IPv6 host without its closing bracket).
MediaPath(name) == MEDIA_URL_PREFIX \o <<"i", "m", "a", "g", "e", "s", "/">> \o name

UrlHostedPath == MediaPath(FilenameLower)
UrlHostedAbsolute == Https \o <<":", "/", "/", "h">> \o MediaPath(FilenameLower)
UrlHostedQuery == MediaPath(FilenameLower) \o <<"?", "w">>
UrlOtherFile == MediaPath(FilenameOther)
UrlOtherHost == Http \o <<":", "/", "/", "o">> \o MediaPath(FilenameLower)
UrlOtherScheme == Mailto \o <<":", "a">>
UrlOtherDirectory == <<"/", "s", "/">> \o FilenameLower
UrlNoLeadingSlash == From(MediaPath(FilenameLower), 1)
UrlMalformed == Http \o <<":", "/", "/", "[", ":", ":", "1">> \o MediaPath(FilenameLower)

Urls == {UrlHostedPath, UrlHostedAbsolute, UrlHostedQuery, UrlOtherFile, UrlOtherHost,
         UrlOtherScheme, UrlOtherDirectory, UrlNoLeadingSlash, UrlMalformed}

MaxUrls == 2

Elements == [form : Forms, url : Urls]

MarkdownTexts ==
    UNION {[1..n -> Elements] : n \in 0..MaxUrls}

\* The File tables detect_file_references runs against.
StoredOriginals == {<<>>, <<FilenameLower>>, <<FilenameLower, FilenameOther>>}

\* detect_file_references about to be called (web/views.py:201) with a text, no
\* upload in progress.
DetectInit ==
    /\ CategoryInit
    /\ WebInit
    /\ AuthInit
    /\ \E originals \in StoredOriginals : file = StoreAll({}, originals)
    /\ next_file_id = Cardinality(file) + 1
    /\ media_dir = [f \in {row.filename : row \in file} |->
                       StoredContent((CHOOSE row \in file : row.filename = f).id)]
    /\ collection_path_exists = (file # {})
    /\ upc = [u \in Uploads |-> "idle"]
    /\ upload = [u \in Uploads |-> NoUpload]
    /\ temporary_file = [u \in Uploads |-> NoFile]
    /\ hashed = [u \in Uploads |-> NotRead]
    /\ filename = [u \in Uploads |-> <<>>]
    /\ returned = [u \in Uploads |-> NotReturned]
    /\ markdown_text \in MarkdownTexts
    /\ file_references = NotDetected
    /\ html_text = NotRendered

\* The call: it reads the table and returns the rows, or an exception leaves it.
DetectFileReferences ==
    /\ file_references.status = "none"
    /\ file_references' = detect_file_references(file, markdown_text)
    /\ UNCHANGED <<nonDetectVars, markdown_text>>

DetectNext == DetectFileReferences

DetectSpec == DetectInit /\ [][DetectNext]_vars

\* A url of the text refers to a row: it parses, it is hosted here, and its path
\* is /<media_url_prefix>/<collection>/<filename> with the row's collection and
\* filename.
WellFormed(url) == urlsplit(url).raised = ""

RefersTo(url, row) ==
    /\ WellFormed(url)
    /\ is_hosted_url(url).hosted
    /\ LET match == hosted_file_path_regex(urlsplit(url).path)
       IN  /\ match.matched
           /\ match.collection = row.collection
           /\ match.filename = row.filename

UrlsOf(text) == {text[i].url : i \in 1..Len(text)}

\* C20: detect_file_references never fails because of a url of the text: it
\* returns, and what it returns is exactly the rows that some well-formed hosted
\* media url of the text refers to, whatever other urls the text has.
C20_UrlsNeverFail ==
    file_references.status # "none" =>
        /\ file_references.status = "returned"
        /\ file_references.files =
               {row \in file : \E url \in UrlsOf(markdown_text) : RefersTo(url, row)}

\* A url qualifies: it parses, it is hosted here, and its path is a media path
\* of a known collection.
Qualifies(url) ==
    /\ WellFormed(url)
    /\ is_hosted_url(url).hosted
    /\ hosted_file_path_regex(urlsplit(url).path).matched

\* C21: when detect_file_references returns, it returns exactly the File rows
\* that a hosted media url of the text names by collection and filename; a url on
\* another host adds nothing; and when no url qualifies the result is empty and
\* the table has not been queried.
C21_ExactlyReferencedFiles ==
    file_references.status = "returned" =>
        /\ file_references.files =
               {row \in file :
                   \E url \in UrlsOf(markdown_text) :
                       /\ Qualifies(url)
                       /\ urlsplit(url).netloc \in {<<>>, urlsplit(host_url).netloc}
                       /\ RefersTo(url, row)}
        /\ (\A url \in UrlsOf(markdown_text) : ~Qualifies(url)) =>
               (file_references.files = {} /\ ~file_references.queried)
        /\ file_references.queried =>
               \E url \in UrlsOf(markdown_text) : Qualifies(url)

\* A text with the url of a stored file and the same path on another host: the
\* call has returned the one file.
C21_Witness ==
    /\ file_references.status = "returned"
    /\ file_references.queried
    /\ Cardinality(file_references.files) = 1
    /\ UrlOtherHost \in UrlsOf(markdown_text)
    /\ Cardinality(file) = 2

\* --------------------------------------------------------- markdown_to_html

\* HTML is a sequence of elements [tag, attrs, text, within]: tag "" is a text
\* node, attrs maps attribute names to values, text is what the element
\* encloses, within is the tag of the element around it ("" for none).
NoAttrs == [name \in {} |-> <<>>]

TextNode(text, within) == [tag |-> "", attrs |-> NoAttrs, text |-> text, within |-> within]

ALLOWED_HTML_TAGS ==
    {"p", "div", "span", "br", "h1", "h2", "h3", "h4", "h5", "h6", "blockquote", "code",
     "pre", "strong", "em", "sub", "sup", "table", "thead", "tbody", "tr", "th", "td",
     "ul", "ol", "li", "a", "img", "hr"}

\* ALLOWED_HTML_ATTRS: the attributes allowed on a tag, "*" included.
ALLOWED_HTML_ATTRS(tag) ==
    {"id"} \cup (IF tag = "a" THEN {"href", "title", "target"}
                 ELSE IF tag = "img" THEN {"src", "alt", "title"}
                 ELSE {})

ALLOWED_PROTOCOLS == {Http, Https, Mailto}

LINKIFY_SKIP_TAGS == {"code", "pre"}

\* A callback that keeps every link.
allowed_protocols_any(attrs, new) == [kept |-> TRUE, attrs |-> attrs]

\* allowed_protocols: the attributes when the scheme of href (missing: "") is an
\* allowed protocol; None when it is not or when href does not parse.
allowed_protocols(attrs, new) ==
    Bind(urlsplit(IF "href" \in DOMAIN attrs THEN attrs["href"] ELSE <<>>),
         LAMBDA parsed_url :
             IF parsed_url.raised = "" /\ parsed_url.scheme \in ALLOWED_PROTOCOLS
             THEN [kept |-> TRUE, attrs |-> attrs]
             ELSE [kept |-> FALSE, attrs |-> NoAttrs])

Blank == <<"_", "b", "l", "a", "n", "k">>

\* bleach.callbacks.target_blank: target="_blank" on every link with a href that
\* is not a mailto: link.
target_blank(attrs, new) ==
    IF "href" \notin DOMAIN attrs \/ StartsWith(attrs["href"], Mailto \o <<":">>)
    THEN [kept |-> TRUE, attrs |-> attrs]
    ELSE [kept |-> TRUE,
          attrs |-> [name \in DOMAIN attrs \cup {"target"} |->
                        IF name = "target" THEN Blank ELSE attrs[name]]]

\* Lines 97-100 and bleach's run of the callbacks: each gets what the one before
\* returned, and a None ends the run.
linkify_callbacks(link_target, attrs, new) ==
    Bind(IF link_target = "BLANK" THEN target_blank(attrs, new)
         ELSE [kept |-> TRUE, attrs |-> attrs],
         LAMBDA first : allowed_protocols(first.attrs, new))

\* The Markdown source is a sequence of items: a link [label](url), an image
\* ![label](url), a run of text, or a raw HTML element, which Markdown passes on.
Label == <<"a">>

\* markdown.markdown(text, output_format="html"), item by item.
markdown(item) ==
    IF item.kind = "link"
    THEN [tag |-> "a", attrs |-> [name \in {"href"} |-> item.url], text |-> Label,
          within |-> "p"]
    ELSE IF item.kind = "image"
    THEN [tag |-> "img",
          attrs |-> [name \in {"src", "alt"} |-> IF name = "src" THEN item.url ELSE Label],
          text |-> <<>>, within |-> "p"]
    ELSE IF item.kind = "text" THEN TextNode(item.text, "p")
    ELSE item.element

DotCom == <<".", "c", "o", "m">>

EndsWith(t, suffix) ==
    Len(t) >= Len(suffix) /\ SubSeq(t, Len(t) - Len(suffix) + 1, Len(t)) = suffix

\* The protocols bleach's url pattern knows, as far as the texts go.
LinkifyProtocols == {Http, Https, Ftp}

\* The link bleach.linkify makes of a run of text: a mailto: link of an email
\* address (parse_email), a link of a url, with http:// put before a bare
\* domain; nothing of other text.
NewLink(text) ==
    Bind(urlsplit(text), LAMBDA parsed :
        IF "@" \in SetOf(text) /\ EndsWith(text, DotCom)
        THEN [found |-> TRUE, href |-> Mailto \o <<":">> \o text]
        ELSE IF parsed.raised = "" /\ parsed.scheme \in LinkifyProtocols
                /\ parsed.netloc # <<>>
        THEN [found |-> TRUE, href |-> text]
        ELSE IF EndsWith(text, DotCom) /\ ":" \notin SetOf(text)
        THEN [found |-> TRUE, href |-> Http \o <<":", "/", "/">> \o text]
        ELSE [found |-> FALSE, href |-> <<>>])

\* bleach.linkify on one element: inside a skipped tag nothing changes; a link the
\* callbacks drop is replaced by its text; text that is a url or an address
\* becomes a link unless the callbacks drop it.
linkify(element, link_target) ==
    IF element.within \in LINKIFY_SKIP_TAGS \/ element.tag \in LINKIFY_SKIP_TAGS
    THEN element
    ELSE IF element.tag = "a"
    THEN Bind(linkify_callbacks(link_target, element.attrs, FALSE), LAMBDA called :
             IF called.kept THEN [element EXCEPT !.attrs = called.attrs]
             ELSE TextNode(element.text, element.within))
    ELSE IF element.tag = ""
    THEN Bind(NewLink(element.text), LAMBDA link :
             IF ~link.found THEN element
             ELSE Bind(linkify_callbacks(link_target,
                                         [name \in {"href"} |-> link.href], TRUE),
                       LAMBDA called :
                           IF called.kept
                           THEN [tag |-> "a", attrs |-> called.attrs,
                                 text |-> element.text, within |-> element.within]
                           ELSE element))
    ELSE element

\* bleach's attr_val_is_uri, as far as the attributes of the elements go.
attr_val_is_uri == {"href", "src"}

\* bleach's sanitize_uri_value: a value with a scheme is kept when the scheme is
\* an allowed protocol; one without is kept as an anchor, as host:port, or as a
\* relative url when http or https is allowed; one that does not parse is dropped.
sanitize_uri_value(value, protocols) ==
    Bind(urlsplit(LowerText(value)), LAMBDA parsed :
        IF parsed.raised # "" THEN FALSE
        ELSE IF parsed.scheme # <<>> THEN parsed.scheme \in protocols
        ELSE \/ StartsWith(value, <<"#">>)
             \/ /\ ":" \in SetOf(value)
                /\ SubSeq(LowerText(value), 1, Find(value, {":"}, 1) - 1) \in protocols
             \/ Http \in protocols
             \/ Https \in protocols)

\* The attributes bleach.clean keeps on an element of an allowed tag.
CleanedAttrs(element) ==
    {name \in DOMAIN element.attrs :
        /\ name \in ALLOWED_HTML_ATTRS(element.tag)
        /\ name \in attr_val_is_uri =>
               sanitize_uri_value(element.attrs[name], ALLOWED_PROTOCOLS)}

\* bleach.clean(tags, attributes, protocols, strip=True) on one element: a tag
\* that is not allowed is stripped, what it encloses stays as text; of an allowed
\* tag the attributes allowed for it stay, a url attribute only with a value
\* sanitize_uri_value keeps.
clean(element) ==
    IF element.tag = "" THEN element
    ELSE IF element.tag \notin ALLOWED_HTML_TAGS
    THEN TextNode(element.text, element.within)
    ELSE [element EXCEPT !.attrs = [name \in CleanedAttrs(element) |-> element.attrs[name]]]

\* markdown_to_html: render, linkify, clean.
markdown_to_html(text, link_target) ==
    [i \in 1..Len(text) |-> clean(linkify(markdown(text[i]), link_target))]

\* The urls of links and images: with an allowed protocol, with javascript: in
\* two spellings, with another protocol, relative, and one that does not parse.
Javascript == <<"j", "a", "v", "a", "s", "c", "r", "i", "p", "t">>

UrlJavascript == Javascript \o <<":", "a">>
UrlJavascriptMixed == <<"J", "a", "v", "a", "S", "c", "r", "i", "p", "t", ":", "a">>
UrlFtp == Ftp \o <<":", "/", "/", "h", ".", "c", "o", "m">>

RenderUrls == {UrlHostedAbsolute, UrlOtherScheme, UrlJavascript, UrlJavascriptMixed,
               UrlFtp, UrlHostedPath, UrlMalformed}

\* The runs of text: plain, a bare domain, an address, a url bleach links.
Texts == {Label, <<"h">> \o DotCom, <<"a", "@", "h">> \o DotCom, UrlFtp}

\* The attributes raw HTML elements come with.
RawAttrs ==
    {NoAttrs, [name \in {"onclick"} |-> Label]}
    \cup {[name \in {"href", "onclick"} |-> IF name = "href" THEN url ELSE Label] :
             url \in {UrlHostedAbsolute, UrlJavascript, UrlHostedPath}}
    \cup {[name \in {"src", "id"} |-> IF name = "src" THEN UrlJavascript ELSE Label]}

\* The raw HTML elements: alone, and links inside a <pre> as well.
RawElements ==
    [tag : {"script", "img", "div"}, attrs : RawAttrs, text : {Label}, within : {""}]
    \cup [tag : {"a"}, attrs : RawAttrs, text : {Label}, within : {"", "pre"}]

Items ==
    [kind : {"link", "image"}, url : RenderUrls]
    \cup [kind : {"text"}, text : Texts]
    \cup [kind : {"html"}, element : RawElements]

MaxItems == 2

Sources == UNION {[1..n -> Items] : n \in 0..MaxItems}

\* markdown_to_html about to be called with a text (models.py:101,
\* api/views.py:85), with or without link_target=LinkTarget.BLANK.
RenderInit ==
    /\ CategoryInit
    /\ WebInit
    /\ AuthInit
    /\ FileInit
    /\ markdown_text \in Sources
    /\ file_references = NotDetected
    /\ html_text \in {[status |-> "none", link_target |-> t, html |-> <<>>] :
                          t \in {"none", "BLANK"}}

\* The call.
MarkdownToHtml ==
    /\ html_text.status = "none"
    /\ html_text' = [html_text EXCEPT
                         !.status = "returned",
                         !.html = markdown_to_html(markdown_text, html_text.link_target)]
    /\ UNCHANGED <<categoryVars, fileVars, detectVars, postVars, flashed, authVars,
                   api_request>>

RenderNext == MarkdownToHtml

RenderSpec == RenderInit /\ [][RenderNext]_vars

\* The protocol a url names: what precedes its first colon, in lower case; none
\* without a colon.
ProtocolOf(url) ==
    IF ":" \in SetOf(url) THEN LowerText(SubSeq(url, 1, Find(url, {":"}, 1) - 1))
    ELSE <<>>

UrlAttrs(element) == DOMAIN element.attrs \cap {"href", "src"}

\* C22: the HTML markdown_to_html returns has only allowed tags, on each only the
\* attributes allowed for it, and no link or image url with a protocol other than
\* http, https and mailto; no <script>, no onclick, no javascript: url is left.
\* Where linkify calls allowed_protocols (outside <code> and <pre>), a link of the
\* rendered text is still a link exactly when urlparse finds an allowed scheme
\* in its href, with the href kept; otherwise only its text is left.
C22_SanitizedHtml ==
    html_text.status = "returned" =>
        /\ Len(html_text.html) = Len(markdown_text)
        /\ \A i \in 1..Len(markdown_text) :
            LET rendered == markdown(markdown_text[i])
                element == html_text.html[i]
            IN  /\ element.tag \in ALLOWED_HTML_TAGS \cup {""}
                /\ element.tag # "script"
                /\ "onclick" \notin DOMAIN element.attrs
                /\ element.tag # "" => DOMAIN element.attrs \subseteq
                                           ALLOWED_HTML_ATTRS(element.tag)
                /\ element.tag = "" => element.attrs = NoAttrs
                /\ \A name \in UrlAttrs(element) :
                       /\ ProtocolOf(element.attrs[name]) \in ALLOWED_PROTOCOLS \cup {<<>>}
                       /\ ProtocolOf(element.attrs[name]) # Javascript
                /\ (rendered.tag = "a" /\ rendered.within \notin LINKIFY_SKIP_TAGS) =>
                       IF /\ "href" \in DOMAIN rendered.attrs
                          /\ WellFormed(rendered.attrs["href"])
                          /\ ProtocolOf(rendered.attrs["href"]) \in ALLOWED_PROTOCOLS
                       THEN /\ element.tag = "a"
                            /\ "href" \in DOMAIN element.attrs
                            /\ element.attrs["href"] = rendered.attrs["href"]
                       ELSE /\ element.tag = ""
                            /\ element.text = rendered.text

\* A text with a <script> element and a link with onclick and a javascript: href
\* has been rendered.
C22_Witness ==
    /\ html_text.status = "returned"
    /\ \E i, j \in 1..Len(markdown_text) :
        /\ markdown_text[i].kind = "html"
        /\ markdown_text[i].element.tag = "script"
        /\ markdown_text[j].kind = "html"
        /\ markdown_text[j].element.tag = "a"
        /\ DOMAIN markdown_text[j].element.attrs = {"href", "onclick"}
        /\ markdown_text[j].element.attrs["href"] = UrlJavascript
        /\ markdown_text[j].element.within = ""
        /\ html_text.html[i].tag = ""
        /\ html_text.html[j].tag = ""

\* ------------------------------------------------------------- claims C24-C28

\* The categories in the order of a listing end with category c.
SortsLast(table, c) ==
    LET listed == categories_query(table)
    IN  listed # <<>> /\ listed[Len(listed)] = c

\* C24: a new category is inserted with an order_index one above the largest
\* order_index of the categories that exist at the insert, and with 1 when there
\* is none, whatever creations, deletions and reorders came before; it is the
\* last category of a listing.
C24_TrailingOrderIndex ==
    [][next_category_id' # next_category_id =>
          LET c == next_category_id
          IN  /\ c \in DOMAIN blog_category' \ DOMAIN blog_category
              /\ \A d \in DOMAIN blog_category : blog_category'[c] > blog_category[d]
              /\ \/ DOMAIN blog_category = {} /\ blog_category'[c] = 1
                 \/ \E d \in DOMAIN blog_category : blog_category'[c] = blog_category[d] + 1
              /\ SortsLast(blog_category', c)]_vars

\* A category created after a reorder left the only other category at index 2.
C24_Witness ==
    /\ \A r \in Requests : pc[r] = "idle"
    /\ \E c, d \in DOMAIN blog_category :
          d < c /\ blog_category[d] = 2 /\ blog_category[c] = 3

\* C25: no committed order_index is a temporary (negative) index: every committed
\* order_index is at least 1, also after a reorder that failed between its flush
\* and its commit.
C25_CommittedIndexesPositive ==
    \A c \in DOMAIN blog_category : blog_category[c] >= 1

\* A reorder has failed after the flush of its temporary indexes.
C25_Witness ==
    \E r \in Requests :
        /\ outcome[r] = "DBAPIError"
        /\ Cardinality(DOMAIN blog_category) = 2

Repeats(list) == Len(list) > Cardinality(SetOf(list))

\* The position of the last occurrence of c in the list.
LastOccurrence(list, c) ==
    CHOOSE i \in 1..Len(list) :
        list[i] = c /\ \A j \in (i + 1)..Len(list) : list[j] # c

\* The request's submitted list repeats an id and names exactly the loaded
\* categories.
RepeatedSubmission(r) ==
    /\ Repeats(submitted_category_ids[r])
    /\ SetOf(submitted_category_ids[r]) = DOMAIN existing_categories_by_id[r]

\* C28: a submitted list that repeats an id and whose set of ids is the set of
\* the existing categories is not returned as stale: the view goes on to renumber,
\* and when it commits every submitted category has the position of its last
\* occurrence in the list as order_index, a positive number, and no two
\* categories share an order_index.
C28_RepeatedIdsApplied ==
    [][\A r \in Requests :
          /\ (pc[r] = "locked" /\ RepeatedSubmission(r) /\ pc'[r] # pc[r])
                => pc'[r] = "flushed"
          /\ (pc[r] = "flushed" /\ pc'[r] = "committed" /\ RepeatedSubmission(r))
                => /\ \A c \in SetOf(submitted_category_ids[r]) :
                         /\ blog_category'[c] = LastOccurrence(submitted_category_ids[r], c)
                         /\ blog_category'[c] >= 1
                   /\ Distinct(blog_category')]_vars

\* A list with a repeated id has been committed, and the indexes are not 1..N.
C28_Witness ==
    \E r \in Requests :
        /\ pc[r] = "committed"
        /\ RepeatedSubmission(r)
        /\ {blog_category[c] : c \in DOMAIN blog_category}
              # 1..Cardinality(DOMAIN blog_category)

\* ------------------------------------------------ blog posts and their views

MaxPostId == 1

PostIds == 1..MaxPostId

\* The content of a post: a text with one image.
Image(url) == <<[form |-> "inline", url |-> url]>>

\* The contents a post is saved with: no image, the image of one file, the
\* images of two files, and an image whose url does not parse.
PostContents ==
    {<<>>, Image(UrlHostedPath), Image(UrlHostedPath) \o Image(UrlOtherFile),
     Image(UrlMalformed)}

\* The uploads stored before the posts are written.
PostOriginals == <<FilenameLower, FilenameOther>>

\* The posts and categories are edited with files already stored, no upload and
\* no reorder in progress.
PostInit ==
    /\ CategoryInit
    /\ WebInit
    /\ AuthInit
    /\ file = StoreAll({}, PostOriginals)
    /\ next_file_id = Cardinality(file) + 1
    /\ media_dir = [f \in {row.filename : row \in file} |->
                       StoredContent((CHOOSE row \in file : row.filename = f).id)]
    /\ collection_path_exists = (file # {})
    /\ upc = [u \in Uploads |-> "idle"]
    /\ upload = [u \in Uploads |-> NoUpload]
    /\ temporary_file = [u \in Uploads |-> NoFile]
    /\ hashed = [u \in Uploads |-> NotRead]
    /\ filename = [u \in Uploads |-> <<>>]
    /\ returned = [u \in Uploads |-> NotReturned]
    /\ markdown_text = <<>>
    /\ file_references = NotDetected
    /\ html_text = NotRendered

\* A table without this foreign key.
ForeignKeyViolationOff(table, category_id) == FALSE

\* ForeignKey(BlogCategory.id) on blog_post.category_id: a post row cannot be
\* written with a category_id that is the id of no category.
ForeignKeyViolation(table, category_id) == category_id \notin DOMAIN table

\* A collection that keeps the files linked before.
LinkedFilesAdded(linked, detected) == linked \cup detected

\* model_object.files = [...]: the collection is replaced; at the flush the
\* association rows of files no longer in it are deleted, those of new files are
\* inserted.
LinkedFiles(linked, detected) == detected

\* BlogPost.files: the File rows linked to post p.
files(p) == {row \in file : <<p, row.id>> \in blog_post_x_file}

\* The request ends with a response: `how` tells which.
Respond(w, how, id) ==
    /\ web_pc' = [web_pc EXCEPT ![w] = how]
    /\ model_object' = [model_object EXCEPT ![w].id = id]
    /\ choices' = [choices EXCEPT ![w] = {}]

\* fetch_object and lines 188-195 of blog_post_form: the post is fetched, or is
\* a new object without id; the categories are queried for the choices of the form.
BlogPostFormLoad(w, id) ==
    /\ web_pc[w] = "idle"
    /\ id = None \/ id \in DOMAIN blog_post
    /\ web_pc' = [web_pc EXCEPT ![w] = "form"]
    /\ model_object' = [model_object EXCEPT ![w] = [view |-> "blog_post_form", id |-> id]]
    /\ choices' = [choices EXCEPT ![w] = DOMAIN blog_category]
    /\ UNCHANGED <<blog_post, next_post_id, blog_post_x_file, flashed>>
    /\ UNCHANGED <<categoryVars, fileVars, detectVars, renderVars, authVars, api_request>>

\* Lines 197-217 of blog_post_form, the form submitted with Save: validation
\* (the category is one of the choices), populate_obj, the files detected in the
\* content, add and commit, the success message, the redirect. An invalid form is
\* rendered again; an exception (of detect_file_references, or IntegrityError or
\* StaleDataError at the commit) leaves the view and nothing is committed.
BlogPostFormSave(w) ==
    /\ web_pc[w] = "form"
    /\ UNCHANGED <<categoryVars, fileVars, detectVars, renderVars, authVars, api_request>>
    /\ \E category_id \in CategoryIds, content \in PostContents :
        LET id == model_object[w].id
            p == IF id = None THEN next_post_id ELSE id
        IN  IF category_id \notin choices[w]
            THEN /\ Respond(w, "invalid", id)
                 /\ UNCHANGED <<blog_post, next_post_id, blog_post_x_file, flashed>>
            ELSE \E detected \in {detect_file_references(file, content)} :
                 IF \/ detected.status # "returned"
                    \/ ForeignKeyViolation(blog_category, category_id)
                    \/ (id # None /\ id \notin DOMAIN blog_post)
                 THEN /\ Respond(w, "failed", id)
                      /\ UNCHANGED <<blog_post, next_post_id, blog_post_x_file, flashed>>
                 ELSE /\ p <= MaxPostId
                      /\ blog_post' =
                             [q \in DOMAIN blog_post \cup {p} |->
                                 IF q = p
                                 THEN [category_id |-> category_id, content |-> content]
                                 ELSE blog_post[q]]
                      /\ blog_post_x_file' =
                             {link \in blog_post_x_file : link[1] # p}
                             \cup {<<p, row.id>> : row \in LinkedFiles(files(p), detected.files)}
                      /\ next_post_id' = IF id = None THEN next_post_id + 1 ELSE next_post_id
                      /\ flashed' = Flash("blog_post_form", id, p)
                      /\ Respond(w, "saved", p)

\* blog_post_delete, confirmed: DELETE and commit; the association rows of the
\* post go with it (ondelete="CASCADE").
BlogPostDelete(p) ==
    /\ p \in DOMAIN blog_post
    /\ blog_post' = [q \in DOMAIN blog_post \ {p} |-> blog_post[q]]
    /\ blog_post_x_file' = {link \in blog_post_x_file : link[1] # p}
    /\ UNCHANGED <<next_post_id, web_pc, model_object, choices, flashed>>
    /\ UNCHANGED <<categoryVars, fileVars, detectVars, renderVars, authVars, api_request>>

\* blog_category_form on a fetched category, saved: slug and name are updated and
\* committed, then the success message.
EditCategory(c) ==
    /\ c \in DOMAIN blog_category
    /\ flashed' = Flash("blog_category_form", c, c)
    /\ UNCHANGED <<categoryVars, fileVars, detectVars, renderVars, postVars, authVars,
                   api_request>>

\* fetch_object and lines 145-150 of blog_category_delete: the category is
\* fetched and its posts are counted; the view goes on to delete it when there is
\* none (with a post, it renders the page and deletes nothing).
BlogCategoryDeleteCount(w, c) ==
    /\ web_pc[w] = "idle"
    /\ c \in DOMAIN blog_category
    /\ Cardinality({p \in DOMAIN blog_post : blog_post[p].category_id = c}) = 0
    /\ web_pc' = [web_pc EXCEPT ![w] = "counted"]
    /\ model_object' = [model_object EXCEPT ![w] = [view |-> "blog_category_delete", id |-> c]]
    /\ UNCHANGED <<blog_post, next_post_id, blog_post_x_file, choices, flashed>>
    /\ UNCHANGED <<categoryVars, fileVars, detectVars, renderVars, authVars, api_request>>

\* Lines 151-159 of blog_category_delete: delete and commit. The DELETE of a
\* category that a post refers to by now is an IntegrityError, and nothing is
\* deleted.
BlogCategoryDeleteCommit(w) ==
    /\ web_pc[w] = "counted"
    /\ LET c == model_object[w].id
       IN  IF c \notin DOMAIN blog_category \/ Restricted(blog_post, c)
           THEN /\ Respond(w, "failed", c)
                /\ UNCHANGED <<blog_category, row_lock>>
           ELSE /\ row_lock[c] = "none"
                /\ blog_category' = [d \in DOMAIN blog_category \ {c} |-> blog_category[d]]
                /\ row_lock' = [d \in DOMAIN row_lock \ {c} |-> row_lock[d]]
                /\ Respond(w, "deleted", c)
    /\ UNCHANGED <<blog_post, next_post_id, blog_post_x_file, flashed>>
    /\ UNCHANGED <<next_category_id, pc, submitted_category_ids, categories,
                   existing_categories_by_id, flushed, outcome>>
    /\ UNCHANGED <<fileVars, detectVars, renderVars, authVars, api_request>>

\* The response is sent and the request is over.
WebRequestEnds(w) ==
    /\ web_pc[w] \in {"invalid", "failed", "saved", "deleted"}
    /\ web_pc' = [web_pc EXCEPT ![w] = "idle"]
    /\ model_object' = [model_object EXCEPT ![w] = NoObject]
    /\ UNCHANGED <<blog_post, next_post_id, blog_post_x_file, choices, flashed>>
    /\ UNCHANGED <<categoryVars, fileVars, detectVars, renderVars, authVars, api_request>>

PostNext ==
    \/ CreateCategory
    \/ \E c \in CategoryIds : EditCategory(c)
    \/ \E w \in WebRequests, id \in {None} \cup PostIds : BlogPostFormLoad(w, id)
    \/ \E w \in WebRequests : BlogPostFormSave(w)
    \/ \E p \in PostIds : BlogPostDelete(p)
    \/ \E w \in WebRequests, c \in CategoryIds : BlogCategoryDeleteCount(w, c)
    \/ \E w \in WebRequests : BlogCategoryDeleteCommit(w)
    \/ \E w \in WebRequests : WebRequestEnds(w)

PostSpec == PostInit /\ [][PostNext]_vars

\* C23: every post's category_id is the id of an existing category, in every
\* committed state that saves of posts and deletions of categories, in any
\* interleaving, lead to.
C23_PostsHaveCategory ==
    \A p \in DOMAIN blog_post : blog_post[p].category_id \in DOMAIN blog_category

\* A delete of a category was refused at its commit: a post saved after the
\* count refers to the category.
C23_Witness ==
    \E w \in WebRequests :
        /\ web_pc[w] = "failed"
        /\ model_object[w].view = "blog_category_delete"
        /\ model_object[w].id \in DOMAIN blog_category
        /\ Restricted(blog_post, model_object[w].id)

\* C29: when blog_post_form has saved a post, the files linked to the post are
\* exactly the File rows that the urls of the saved content refer to: a file
\* whose reference is gone is unlinked, a newly referenced file is linked; the
\* File table itself is as before.
C29_LinkedFilesAreDetected ==
    [][\A w \in WebRequests :
          (web_pc[w] = "form" /\ web_pc'[w] = "saved") =>
              LET p == model_object'[w].id
              IN  /\ p \in DOMAIN blog_post'
                  /\ {row \in file' : <<p, row.id>> \in blog_post_x_file'}
                         = {row \in file :
                               \E url \in UrlsOf(blog_post'[p].content) : RefersTo(url, row)}
                  /\ \A q \in DOMAIN blog_post \ {p} :
                         {link \in blog_post_x_file' : link[1] = q}
                             = {link \in blog_post_x_file : link[1] = q}
                  /\ file' = file]_vars

\* An edit has been saved with a content that shows one of the two stored
\* files: the post is linked to that file alone.
C29_Witness ==
    \E w \in WebRequests :
        /\ web_pc[w] = "saved"
        /\ flashed.view = "blog_post_form" /\ flashed.had_id
        /\ LET p == model_object[w].id
           IN  /\ blog_post[p].content = Image(UrlHostedPath)
               /\ Cardinality(files(p)) = 1
               /\ Cardinality(file) = 2

\* C30: the success message of blog_category_form and of blog_post_form names
\* the action 'created' when the saved object had no id before the request, and
\* 'edited' when it had one.
C30_PerformedAction ==
    flashed.view # "none" =>
        flashed.performed_action = IF flashed.had_id THEN "edited" ELSE "created"

\* ----------------------------------------------- admin users and sessions

MaxPublicId == 3

EmailAddresses == {"a@h", "b@h"}

\* The passwords typed at the prompts and in the login form, and their lengths.
Passwords == {"short", "password-1", "password-2"}

PasswordLength(password) == IF password = "short" THEN 5 ELSE 10

\* generate_password_hash, check_password_hash: a hash matches the password it
\* was made from.
generate_password_hash(password) == [method |-> "pbkdf2:sha256:600000", of |-> password]

check_password_hash(password_hash, password) == password_hash.of = password

Blueprints == {"admin", "admin.api", "admin.web", "blog"}

\* A query that does not look at `active`.
get_by_public_id_any(public_id) ==
    LET found == {e \in DOMAIN admin_user : admin_user[e].public_id = public_id}
    IN  IF found = {} THEN NoUser ELSE CHOOSE e \in found : TRUE

\* AdminUser.get_by_public_id: the first active admin user with this public id,
\* or none.
get_by_public_id(public_id) ==
    LET found == {e \in DOMAIN admin_user :
                     admin_user[e].active /\ admin_user[e].public_id = public_id}
    IN  IF found = {} THEN NoUser ELSE CHOOSE e \in found : TRUE

\* AdminUser.get_by_email_address
get_by_email_address(email_address) ==
    IF email_address \in DOMAIN admin_user THEN email_address ELSE NoUser

\* load_user: for a request to a view of the admin blueprints, the active admin
\* user with the public id of the session.
load_user(blueprint, user_id) ==
    IF blueprint \in {"admin", "admin.api", "admin.web"}
    THEN get_by_public_id(user_id)
    ELSE NoUser

\* flask_login's current_user for a request of session s: without a user id in
\* the session the user is anonymous, else what load_user returns.
CurrentUser(s, blueprint) ==
    IF session[s] = None THEN NoUser ELSE load_user(blueprint, session[s])

\* rotate_public_id: a digest over 64 random bytes, a value not drawn before.
rotate_public_id == next_public_id

\* create_user: the email address is new and the password has 8 characters.
CreateUser(email_address, password) ==
    /\ get_by_email_address(email_address) = NoUser
    /\ PasswordLength(password) >= 8
    /\ next_public_id <= MaxPublicId
    /\ admin_user' =
           [e \in DOMAIN admin_user \cup {email_address} |->
               IF e = email_address
               THEN [public_id |-> rotate_public_id, active |-> TRUE,
                     password_hash |-> generate_password_hash(password)]
               ELSE admin_user[e]]
    /\ next_public_id' = next_public_id + 1
    /\ UNCHANGED <<session, current_user, api_request>>
    /\ UNCHANGED <<categoryVars, fileVars, detectVars, renderVars, postVars, flashed>>

\* activate_user
ActivateUser(email_address) ==
    /\ get_by_email_address(email_address) # NoUser
    /\ ~admin_user[email_address].active
    /\ admin_user' = [admin_user EXCEPT ![email_address].active = TRUE]
    /\ UNCHANGED <<next_public_id, session, current_user, api_request>>
    /\ UNCHANGED <<categoryVars, fileVars, detectVars, renderVars, postVars, flashed>>

\* deactivate_user
DeactivateUser(email_address) ==
    /\ get_by_email_address(email_address) # NoUser
    /\ admin_user[email_address].active
    /\ admin_user' = [admin_user EXCEPT ![email_address].active = FALSE]
    /\ UNCHANGED <<next_public_id, session, current_user, api_request>>
    /\ UNCHANGED <<categoryVars, fileVars, detectVars, renderVars, postVars, flashed>>

\* delete_user, confirmed
DeleteUser(email_address) ==
    /\ get_by_email_address(email_address) # NoUser
    /\ admin_user' = [e \in DOMAIN admin_user \ {email_address} |-> admin_user[e]]
    /\ UNCHANGED <<next_public_id, session, current_user, api_request>>
    /\ UNCHANGED <<categoryVars, fileVars, detectVars, renderVars, postVars, flashed>>

\* reset_user_password: the new hash and a rotated public id are committed.
ResetUserPassword(email_address, password) ==
    /\ get_by_email_address(email_address) # NoUser
    /\ PasswordLength(password) >= 8
    /\ next_public_id <= MaxPublicId
    /\ admin_user' = [admin_user EXCEPT
                         ![email_address].password_hash = generate_password_hash(password),
                         ![email_address].public_id = rotate_public_id]
    /\ next_public_id' = next_public_id + 1
    /\ UNCHANGED <<session, current_user, api_request>>
    /\ UNCHANGED <<categoryVars, fileVars, detectVars, renderVars, postVars, flashed>>

\* A validation that does not look at is_active.
ValidateAnyStatus(email_address, password) ==
    /\ get_by_email_address(email_address) # NoUser
    /\ check_password_hash(admin_user[email_address].password_hash, password)

\* AdminLoginForm.validate: the admin user exists, the password matches its hash
\* and the user is active.
Validate(email_address, password) ==
    /\ get_by_email_address(email_address) # NoUser
    /\ check_password_hash(admin_user[email_address].password_hash, password)
    /\ admin_user[email_address].active

\* login: a session that is not authenticated submits the form; when it is valid,
\* login_user stores the user's get_id() in the session.
Login(s, email_address, password) ==
    /\ CurrentUser(s, "admin.web") = NoUser
    /\ IF Validate(email_address, password)
       THEN /\ session' = [session EXCEPT ![s] = admin_user[email_address].public_id]
            /\ current_user' = [current_user EXCEPT
                                   ![s] = [blueprint |-> "admin.web", user |-> email_address]]
       ELSE /\ current_user' = [current_user EXCEPT
                                   ![s] = [blueprint |-> "admin.web", user |-> NoUser]]
            /\ UNCHANGED session
    /\ UNCHANGED <<admin_user, next_public_id, api_request>>
    /\ UNCHANGED <<categoryVars, fileVars, detectVars, renderVars, postVars, flashed>>

\* logout: logout_user removes the user id of an authenticated session.
Logout(s) ==
    /\ CurrentUser(s, "admin.web") # NoUser
    /\ session' = [session EXCEPT ![s] = None]
    /\ current_user' = [current_user EXCEPT ![s] = [blueprint |-> "admin.web", user |-> NoUser]]
    /\ UNCHANGED <<admin_user, next_public_id, api_request>>
    /\ UNCHANGED <<categoryVars, fileVars, detectVars, renderVars, postVars, flashed>>

\* A request of session s to a view of the blueprint: its current_user is loaded.
LoadUser(s, blueprint) ==
    /\ current_user' = [current_user EXCEPT
                           ![s] = [blueprint |-> blueprint, user |-> CurrentUser(s, blueprint)]]
    /\ UNCHANGED <<admin_user, next_public_id, session, api_request>>
    /\ UNCHANGED <<categoryVars, fileVars, detectVars, renderVars, postVars, flashed>>

AuthNext ==
    \/ \E e \in EmailAddresses, password \in Passwords : CreateUser(e, password)
    \/ \E e \in EmailAddresses : ActivateUser(e)
    \/ \E e \in EmailAddresses : DeactivateUser(e)
    \/ \E e \in EmailAddresses : DeleteUser(e)
    \/ \E e \in EmailAddresses, password \in Passwords : ResetUserPassword(e, password)
    \/ \E s \in Sessions, e \in EmailAddresses, password \in Passwords : Login(s, e, password)
    \/ \E s \in Sessions : Logout(s)
    \/ \E s \in Sessions, blueprint \in Blueprints : LoadUser(s, blueprint)

AuthSpec == Init /\ [][AuthNext]_vars

AdminBlueprints == {"admin", "admin.api", "admin.web"}

\* C26: a session is authenticated on the admin endpoints exactly while an
\* active admin user has the public id stored in the session. When deactivate_user
\* or reset_user_password has committed, no session is authenticated as that user
\* (the rotated public id is one no session holds), and a login stores a user id
\* in a session only for an active user.
C26_SessionsFollowTheUser ==
    /\ [](\A s \in Sessions, blueprint \in AdminBlueprints :
             LET user == CurrentUser(s, blueprint)
             IN  /\ user # NoUser =>
                        /\ user \in DOMAIN admin_user
                        /\ admin_user[user].active
                        /\ admin_user[user].public_id = session[s]
                 /\ \A e \in DOMAIN admin_user :
                        (~admin_user[e].active \/ admin_user[e].public_id # session[s])
                            => user # e)
    /\ [][\A e \in DOMAIN admin_user \cap DOMAIN admin_user' :
             (\/ admin_user[e].active /\ ~admin_user'[e].active
              \/ admin_user'[e].public_id # admin_user[e].public_id)
                 => \A s \in Sessions, blueprint \in AdminBlueprints :
                        /\ CurrentUser(s, blueprint)' # e
                        /\ admin_user'[e].public_id # admin_user[e].public_id
                               => session[s] # admin_user'[e].public_id]_vars
    /\ [][\A s \in Sessions :
             (session'[s] # session[s] /\ session'[s] # None)
                 => \E e \in DOMAIN admin_user :
                        admin_user[e].active /\ admin_user[e].public_id = session'[s]]_vars

\* A session that logged in holds a public id that its user, active, no longer
\* has, and its latest request to the admin loaded no user.
C26_Witness ==
    \E s \in Sessions, e \in DOMAIN admin_user :
        /\ session[s] # None
        /\ admin_user[e].active
        /\ admin_user[e].public_id > session[s]
        /\ \A d \in DOMAIN admin_user : admin_user[d].public_id # session[s]
        /\ current_user[s] = [blueprint |-> "admin.api", user |-> NoUser]

\* ------------------------------------------------- the views of the admin API

\* The HX-Request header of a request: "true", another value, or none.
Headers == {"true", "false", "absent"}

\* detect_htmx_request (before_request of the admin blueprint): g.htmx_request
detect_htmx_request(header) == header = "true"

\* login_required: the view is called for an authenticated current_user.
is_authenticated(user) == user # NoUser

\* A decorator that lets every request through.
htmx_not_required(htmx_request) == TRUE

\* htmx_required: the view is called unless g.htmx_request is False.
htmx_required(htmx_request) == htmx_request # FALSE

\* @login_required outside @htmx_required: a request that is not logged in is
\* answered 401 (the API blueprint has no login view), a logged-in one without
\* the HTMX header 403, and the view is called for the others.
Decorated(user, htmx_request) ==
    IF ~is_authenticated(user) THEN "Unauthorized"
    ELSE IF ~htmx_required(htmx_request) THEN "Forbidden"
    ELSE "admitted"

\* The API requests of the model: one to order_blog_categories, one to
\* upload_image.
ApiOrders == {"r1"}

ApiUploads == {"u1"}

\* The view of API request x has begun and not ended.
BodyRunning(x) ==
    \/ x \in Requests /\ pc[x] # "idle"
    \/ x \in Uploads /\ upc[x] # "idle"

\* Two admin users exist, one of them deactivated after it logged in; the
\* session of the active one is logged in, the other session is that of the
\* deactivated user or has never logged in.
ApiInit ==
    /\ CategoryInit
    /\ WebInit
    /\ FileInit
    /\ markdown_text = <<>>
    /\ file_references = NotDetected
    /\ html_text = NotRendered
    /\ admin_user =
           [e \in EmailAddresses |->
               [public_id |-> IF e = "a@h" THEN 1 ELSE 2,
                active |-> (e = "a@h"),
                password_hash |-> generate_password_hash("password-1")]]
    /\ next_public_id = 3
    /\ \E logged_in \in BOOLEAN :
          /\ session = [s \in Sessions |->
                           IF s = "s1" THEN 1 ELSE IF logged_in THEN 2 ELSE None]
          /\ current_user =
                 [s \in Sessions |->
                     IF s = "s1" THEN [blueprint |-> "admin.web", user |-> "a@h"]
                     ELSE IF logged_in THEN [blueprint |-> "admin.web", user |-> "b@h"]
                     ELSE NoLoad]
    /\ api_request = [x \in Requests \cup Uploads |-> NoRequest]

\* A request of session s arrives at an API view: before_request and the
\* decorators run.
ApiDispatch(x, s, header) ==
    /\ api_request[x].status = "none"
    /\ ~BodyRunning(x)
    /\ LET user == CurrentUser(s, "admin.api")
           htmx_request == detect_htmx_request(header)
       IN  api_request' = [api_request EXCEPT
                              ![x] = [status |-> Decorated(user, htmx_request),
                                      user |-> user,
                                      htmx_request |-> htmx_request]]
    /\ UNCHANGED <<categoryVars, fileVars, detectVars, renderVars, postVars, flashed, authVars>>

\* The steps of order_blog_categories for an admitted request.
ApiOrderStep(r) ==
    /\ api_request[r].status = "admitted"
    /\ \/ ReceiveOrder(r)
       \/ SelectForUpdate(r)
       \/ ReturnUnchanged(r)
       \/ SetTemporaryIndexes(r)
       \/ SetNewIndexes(r)
       \/ CommitFails(r)
       \/ ReloadCategories(r)

\* The steps of upload_image for an admitted request with a valid form:
\* store_file.
ApiUploadStep(u) ==
    /\ api_request[u].status = "admitted"
    /\ \/ ReadUpload(u)
       \/ FindStoredFile(u)
       \/ CheckCollectionPath(u)
       \/ MakeCollectionPath(u)
       \/ NormalizeFilename(u)
       \/ CopyToDestination(u)
       \/ InsertFile(u)
       \/ InsertFails(u)

\* The response of order_blog_categories is sent: that of the view, or the 401
\* or 403 of a decorator.
ApiOrderEnds(r) ==
    /\ api_request[r].status # "none"
    /\ api_request' = [api_request EXCEPT ![r] = NoRequest]
    /\ IF api_request[r].status = "admitted"
       THEN RemoveSession(r)
       ELSE UNCHANGED categoryVars
    /\ UNCHANGED <<fileVars, detectVars, renderVars, postVars, flashed, authVars>>

\* The response of upload_image is sent: after store_file, for a form that is not
\* valid (no file is stored), or the 401 or 403 of a decorator.
ApiUploadEnds(u) ==
    /\ api_request[u].status # "none"
    /\ api_request' = [api_request EXCEPT ![u] = NoRequest]
    /\ IF upc[u] = "returned"
       THEN ReleaseUpload(u)
       ELSE upc[u] = "idle" /\ UNCHANGED fileVars
    /\ UNCHANGED <<categoryVars, detectVars, renderVars, postVars, flashed, authVars>>

ApiNext ==
    \/ CreateCategory
    \/ \E x \in ApiOrders \cup ApiUploads, s \in Sessions, header \in Headers :
          ApiDispatch(x, s, header)
    \/ \E r \in ApiOrders : ApiOrderStep(r)
    \/ \E u \in ApiUploads : ApiUploadStep(u)
    \/ \E r \in ApiOrders : ApiOrderEnds(r)
    \/ \E u \in ApiUploads : ApiUploadEnds(u)

ApiSpec == ApiInit /\ [][ApiNext]_vars

ApiRequests == ApiOrders \cup ApiUploads

\* The view of an API request runs only for a logged-in admin user and with the
\* HTMX header.
ViewsRunForAdminHtmx ==
    \A x \in ApiRequests :
        BodyRunning(x) =>
            /\ api_request[x].status = "admitted"
            /\ api_request[x].user \in DOMAIN admin_user
            /\ api_request[x].htmx_request

\* The statement of the claim as it was made: the views run only for a logged-in
\* admin user with the HTMX header, and every request without the HTMX header is
\* answered 403 Forbidden, its view not run.
C27_NoHeaderIsForbidden ==
    /\ ViewsRunForAdminHtmx
    /\ \A x \in ApiRequests :
          (api_request[x].status # "none" /\ ~api_request[x].htmx_request)
              => (api_request[x].status = "Forbidden" /\ ~BodyRunning(x))

\* C27: order_blog_categories and upload_image change no order_index, File row or
\* file on disk unless the request comes from a logged-in admin user and has the
\* HTMX header. A request of a logged-in admin user without the HTMX header is
\* answered 403 Forbidden and a request that is not logged in 401 Unauthorized,
\* with or without the header; in both cases the view does not run.
C27_ApiViewsAreGuarded ==
    /\ [](ViewsRunForAdminHtmx)
    /\ [](\A x \in ApiRequests :
             api_request[x].status # "none" =>
                 /\ api_request[x].status =
                        IF api_request[x].user = NoUser THEN "Unauthorized"
                        ELSE IF ~api_request[x].htmx_request THEN "Forbidden"
                        ELSE "admitted"
                 /\ api_request[x].status \in {"Unauthorized", "Forbidden"}
                        => ~BodyRunning(x))
    /\ [][(\/ \E c \in DOMAIN blog_category \cap DOMAIN blog_category' :
                 blog_category'[c] # blog_category[c]
           \/ flushed' # flushed
           \/ file' # file
           \/ media_dir' # media_dir
           \/ temporary_file' # temporary_file)
              => \E x \in ApiRequests :
                     /\ api_request[x].status = "admitted"
                     /\ api_request[x].user \in DOMAIN admin_user
                     /\ admin_user[api_request[x].user].active
                     /\ api_request[x].htmx_request]_vars

\* A logged-in request without the HTMX header has been answered 403 and one
\* that is not logged in, with the header, 401, while a file has been stored
\* and a category holds a reordered index.
C27_Witness ==
    /\ api_request["r1"] = [status |-> "Forbidden", user |-> "a@h", htmx_request |-> FALSE]
    /\ api_request["u1"] = [status |-> "Unauthorized", user |-> NoUser, htmx_request |-> TRUE]
    /\ file # {}
    /\ \E c \in DOMAIN blog_category : blog_category[c] = 2 /\ c = 1

=============================================================================
